---- MODULE Spec2Model ----
(***************************************************************************)
(* State-machine model of the auto-processing pipeline of the Handwriting  *)
(* OCR plugin: the serial ProcessingQueue (src/src/queue.ts), the remote   *)
(* client's upload/poll/fetch protocol and the AutoProcessor change        *)
(* detector with its sidecar records (src/src/api.ts), and the plugin that *)
(* wires them to the vault's notifications (src/src/main.ts).              *)
(***************************************************************************)
EXTENDS Integers, Sequences, FiniteSets, TLC

(***************************************************************************)
(* Bounds of the model (not program constants).                            *)
(***************************************************************************)
\* number of add() calls made by the environment of the stand-alone queue
MaxAdds == 4
\* number of callbacks that may be in flight at once (clear() lets it grow)
MaxInFlight == 2
\* number of processDocument calls made one after the other
MaxCalls == 2
\* number of grace timers and registered handler pairs at once
MaxHandlers == 2
\* number of pages of a document the remote service returns
MaxPages == 2
\* number of failure notices followed
MaxNotices == 2

VARIABLES
    queue,        \* ProcessingQueue.queue: sequence of TFile
    processing,   \* ProcessingQueue.processing
    inflight,     \* files whose callback is awaited at queue.ts:35, oldest first
    addCalls,     \* history: every add() call, with whether the path was pending
    started,      \* history: files handed to onProcess, in order
    completed,    \* history: settled callbacks, [file, outcome, behind]
    discarded,    \* history: files dropped by clear()
    everCleared,  \* history: clear() has been called
    ppc,          \* processDocument: where the call is suspended
    attempts,     \* processDocument: local variable attempts
    documentId,   \* processDocument: local variable documentId
    result,       \* processDocument: how the last call ended
    nextId,       \* remote service: number of jobs created so far
    requests,     \* history: what the running call has done, by kind
    settings,     \* plugin.settings (shared with the AutoProcessor)
    stat,         \* vault: the stat of each TFile that exists
    meta,         \* vault: the content of each sidecar that exists, by path
    recorded,     \* history: the stat each stored record was written at
    answer,       \* last value returned by shouldProcess, with its argument
    loaded,       \* the plugin is loaded (onload done, onunload not yet)
    api,          \* plugin.api is not null
    autoProcessor,        \* plugin.autoProcessor is not null
    vaultCreateListener,  \* plugin.vaultCreateListener is not null
    vaultModifyListener,  \* plugin.vaultModifyListener is not null
    handlers,     \* vault: number of registered handlers, by event
    timers,       \* number of pending grace-period timers
    attempt,      \* the state of each in-flight callback, as inflight
    notes,        \* vault: the output artifacts written
    extract,      \* one extractToNewNote call in detail: inputs, notes created
    call,         \* processFile behind the queue with any output action
    artifacts,    \* vault: the path of each file the output actions wrote
    notices       \* the failure notices shown, with the failure of each

qvars == <<queue, processing, inflight>>
hvars == <<addCalls, started, completed, discarded, everCleared>>
pvars == <<ppc, attempts, documentId, result, nextId, requests>>
svars == <<settings, stat, meta, recorded, answer>>
avars == <<loaded, api, autoProcessor, vaultCreateListener, vaultModifyListener,
           handlers, timers, attempt, notes>>
nvars == <<extract, call, artifacts, notices>>
vars == <<qvars, hvars, pvars, svars, avars, nvars>>

\* what the actions of each part leave alone
notQueue == <<pvars, svars, avars, nvars>>
notPoll == <<qvars, hvars, svars, avars, nvars>>
notShould == <<qvars, hvars, pvars, avars, nvars>>
notPlugin == <<hvars, pvars, nvars>>
notNote == <<qvars, hvars, pvars, settings, answer, avars, call, artifacts,
             notices>>
notProcessFile == <<hvars, pvars, settings, stat, answer, avars, extract,
                    artifacts, notices>>
notFeedback == <<qvars, hvars, pvars, settings, recorded, avars, extract, call,
                 notices>>
notNotice == <<qvars, hvars, pvars, svars, avars, extract, call, artifacts>>

Undefined == "<undefined>"

\* the value of a function of the vault at a key it may not have
Lookup(fn, key, default) == IF key \in DOMAIN fn THEN fn[key] ELSE default

Put(fn, key, value) == [k \in DOMAIN fn \cup {key} |-> IF k = key THEN value ELSE fn[k]]

Range(s) == {s[i] : i \in DOMAIN s}

Remove(s, i) == SubSeq(s, 1, i - 1) \o SubSeq(s, i + 1, Len(s))

(***************************************************************************)
(* Strings are sequences of characters.                                    *)
(***************************************************************************)
startsWith(s, prefix) ==
    Len(prefix) <= Len(s) /\ SubSeq(s, 1, Len(prefix)) = prefix

lastIndexOf(s, c) ==
    IF \E i \in DOMAIN s : s[i] = c
    THEN CHOOSE i \in DOMAIN s : s[i] = c /\ \A j \in DOMAIN s : s[j] = c => j <= i
    ELSE 0

UpperCase == <<"A","B","C","D","E","F","G","H","I","J","K","L","M",
               "N","O","P","Q","R","S","T","U","V","W","X","Y","Z">>
LowerCase == <<"a","b","c","d","e","f","g","h","i","j","k","l","m",
               "n","o","p","q","r","s","t","u","v","w","x","y","z">>

toLowerCase(s) ==
    [i \in DOMAIN s |->
        IF \E k \in DOMAIN UpperCase : UpperCase[k] = s[i]
        THEN LowerCase[CHOOSE k \in DOMAIN UpperCase : UpperCase[k] = s[i]]
        ELSE s[i]]

DigitChars == <<"0","1","2","3","4","5","6","7","8","9">>

\* decimal text of a natural number, as a template literal prints it
RECURSIVE toString(_)
toString(n) ==
    IF n < 10 THEN <<DigitChars[n + 1]>>
    ELSE toString(n \div 10) \o <<DigitChars[(n % 10) + 1]>>

(***************************************************************************)
(* Files of the vault.  A TFile is named by an identifier; path(f) is its  *)
(* vault path; name, extension and parent are derived from it as the host  *)
(* application does (the root folder's path is "/").                       *)
(***************************************************************************)
TFile == {"f1", "f2", "f3", "f4", "f5", "f6"}

path(f) ==
    CASE f = "f1" -> <<"I","n","/","a",".","p","n","g">>
      [] f = "f2" -> <<"I","n","/","s","/","b",".","P","D","F">>
      [] f = "f3" -> <<"I","n","2","/","a",".","p","n","g">>
      [] f = "f4" -> <<"I","n","/","n",".","m","d">>
      [] f = "f5" -> <<"c",".","j","p","g">>
      [] f = "f6" -> <<"I","n","/","d",".","t","i","f">>
      [] OTHER -> artifacts[f]

name(f) == SubSeq(path(f), lastIndexOf(path(f), "/") + 1, Len(path(f)))

extension(f) ==
    IF lastIndexOf(name(f), ".") = 0 THEN <<>>
    ELSE SubSeq(name(f), lastIndexOf(name(f), ".") + 1, Len(name(f)))

\* the name without its extension
basename(f) ==
    IF lastIndexOf(name(f), ".") = 0 THEN name(f)
    ELSE SubSeq(name(f), 1, lastIndexOf(name(f), ".") - 1)

parentPath(f) ==
    IF lastIndexOf(path(f), "/") = 0 THEN <<"/">>
    ELSE SubSeq(path(f), 1, lastIndexOf(path(f), "/") - 1)

(***************************************************************************)
(* ProcessingQueue (src/src/queue.ts).  Its operations are functions of    *)
(* the queue object q = [queue, processing, inflight]; inflight lists the  *)
(* files whose callback has been invoked and has not settled.              *)
(***************************************************************************)
Q == [queue |-> queue, processing |-> processing, inflight |-> inflight]

SetQ(q) ==
    /\ queue' = q.queue
    /\ processing' = q.processing
    /\ inflight' = q.inflight

\* a processNext that takes the entry added last
processNextTakesLast(q) ==
    IF Len(q.queue) = 0
    THEN [q EXCEPT !.processing = FALSE]
    ELSE [queue |-> SubSeq(q.queue, 1, Len(q.queue) - 1),
          processing |-> TRUE,
          inflight |-> Append(q.inflight, q.queue[Len(q.queue)])]

\* processNext up to its suspension at the await of the callback
processNext(q) ==
    IF Len(q.queue) = 0
    THEN [q EXCEPT !.processing = FALSE]
    ELSE [queue |-> Tail(q.queue),
          processing |-> TRUE,
          inflight |-> Append(q.inflight, Head(q.queue))]

\* an add that compares the path with the head of the queue only
addComparesHead(q, file) ==
    IF Len(q.queue) > 0 /\ path(q.queue[1]) = path(file)
    THEN q
    ELSE LET pushed == [q EXCEPT !.queue = Append(@, file)] IN
         IF ~q.processing THEN processNext(pushed) ELSE pushed

\* an add without the search for the path
addAlwaysPushes(q, file) ==
    LET pushed == [q EXCEPT !.queue = Append(@, file)] IN
    IF ~q.processing THEN processNext(pushed) ELSE pushed

add(q, file) ==
    IF \E i \in DOMAIN q.queue : path(q.queue[i]) = path(file)
    THEN q
    ELSE LET pushed == [q EXCEPT !.queue = Append(@, file)] IN
         IF ~q.processing THEN processNext(pushed) ELSE pushed

\* a processNext without the try/catch: a rejection ends the chain
resumeWithoutCatch(q, i, outcome) ==
    IF outcome = "rejected"
    THEN [q EXCEPT !.inflight = Remove(@, i)]
    ELSE processNext([q EXCEPT !.inflight = Remove(@, i)])

\* the callback of the i-th in-flight entry settles ("fulfilled" or
\* "rejected"): the catch makes both continue with processNext at line 41
resume(q, i, outcome) ==
    processNext([q EXCEPT !.inflight = Remove(@, i)])

clear(q) == [q EXCEPT !.queue = <<>>, !.processing = FALSE]

(***************************************************************************)
(* HandwritingOCRAPI (src/src/api.ts): one processDocument call at a time, *)
(* suspended at a request or at the 2-second wait; the remote service      *)
(* answers each request with any status.                                   *)
(***************************************************************************)
maxAttempts == 60

UploadStatuses == {200, 201, 204, 401, 403, 413, 415, 500}
RequestStatuses == {200, 201, 401, 500}
JobStatuses == {"new", "processing", "processed", "failed"}
ErrorTexts == {Undefined, "", "page unreadable"}

Return(v) == [kind |-> "return", value |-> v]
Throw(m) == [kind |-> "throw", value |-> m]

\* an uploadDocument that keeps the id of the first job it created
uploadDocumentKeepsFirstId(status, id) ==
    IF status = 403 THEN Throw(<<"Insufficient credits">>)
    ELSE IF status = 415 THEN Throw(<<"Unsupported file type">>)
    ELSE IF status = 413 THEN Throw(<<"File too large (max 20MB)">>)
    ELSE IF status = 401 THEN Throw(<<"Invalid API key">>)
    ELSE IF status # 201 THEN Throw(<<"Upload failed: ", status>>)
    ELSE Return(1)

\* an uploadDocument that takes every 2xx answer for the created job
uploadDocumentAny2xx(status, id) ==
    IF status = 403 THEN Throw(<<"Insufficient credits">>)
    ELSE IF status = 415 THEN Throw(<<"Unsupported file type">>)
    ELSE IF status = 413 THEN Throw(<<"File too large (max 20MB)">>)
    ELSE IF status = 401 THEN Throw(<<"Invalid API key">>)
    ELSE IF status < 200 \/ status > 299 THEN Throw(<<"Upload failed: ", status>>)
    ELSE Return(id)

\* uploadDocument once the response has arrived: the id, or the failure
uploadDocument(status, id) ==
    IF status = 403 THEN Throw(<<"Insufficient credits">>)
    ELSE IF status = 415 THEN Throw(<<"Unsupported file type">>)
    ELSE IF status = 413 THEN Throw(<<"File too large (max 20MB)">>)
    ELSE IF status = 401 THEN Throw(<<"Invalid API key">>)
    ELSE IF status # 201 THEN Throw(<<"Upload failed: ", status>>)
    ELSE Return(id)

\* a checkStatus that takes every 2xx answer for a status record
checkStatusAny2xx(status, json) ==
    IF status = 401 THEN Throw(<<"Invalid API key">>)
    ELSE IF status < 200 \/ status > 299 THEN Throw(<<"Status check failed: ", status>>)
    ELSE Return(json)

\* checkStatus once the response has arrived: the document status record
checkStatus(status, json) ==
    IF status = 401 THEN Throw(<<"Invalid API key">>)
    ELSE IF status # 200 THEN Throw(<<"Status check failed: ", status>>)
    ELSE Return(json)

\* a getResult that looks at the HTTP status only
getResultStatusOnly(status, data) ==
    IF status = 401 THEN Throw(<<"Invalid API key">>)
    ELSE IF status # 200 THEN Throw(<<"Failed to get result: ", status>>)
    ELSE Return(data)

\* getResult once the response has arrived
getResult(status, data) ==
    IF status = 401 THEN Throw(<<"Invalid API key">>)
    ELSE IF status # 200 THEN Throw(<<"Failed to get result: ", status>>)
    ELSE IF data.error # Undefined /\ data.error # ""
         THEN Throw(<<"OCR failed: ", data.error>>)
    ELSE Return(data)

\* a loop condition that lets one more attempt through
loopContinuesOffByOne(n) == n <= maxAttempts

\* the condition of the polling loop, with n status checks answered so far
loopContinues(n) == n < maxAttempts

\* no status check of the running call has been answered
NoStatus == [http |-> 0, job |-> "none", error |-> Undefined]

\* the result request of the running call has not been answered
NoFetch == [http |-> 0, error |-> Undefined]

\* what the running call has done: requests and waits by kind, the HTTP
\* status its upload was answered with (0: not yet), the id the service gave
\* its upload (0: none), the ids its status checks and its fetch were made
\* for, the last answer to a status check and the answer to the fetch
NoRequests == [upload |-> 0, wait |-> 0, check |-> 0, fetch |-> 0,
               uploaded |-> 0, job |-> 0, ids |-> {}, last |-> NoStatus,
               fetched |-> NoFetch]

NoResult == [kind |-> "none", value |-> Undefined]

\* the loop is entered with n attempts made: the next wait starts, or the
\* call ends with the timeout
EnterLoop(n, req) ==
    IF loopContinues(n)
    THEN /\ ppc' = "wait"
         /\ requests' = [req EXCEPT !.wait = @ + 1]
         /\ UNCHANGED result
    ELSE /\ ppc' = "idle"
         /\ result' = Throw(<<"Processing timeout">>)
         /\ requests' = req

\* processDocument is called: the upload request is sent
ProcessDocumentCall ==
    /\ ppc = "idle"
    /\ nextId < MaxCalls
    /\ ppc' = "upload"
    /\ attempts' = 0
    /\ documentId' = Undefined
    /\ result' = NoResult
    /\ requests' = [NoRequests EXCEPT !.upload = 1]
    /\ UNCHANGED nextId
    /\ UNCHANGED notPoll

\* the upload is answered; on 201 the loop is entered and the first wait starts
UploadResponds(status) ==
    /\ ppc = "upload"
    /\ LET r == uploadDocument(status, nextId + 1) IN
       IF r.kind = "throw"
       THEN /\ ppc' = "idle"
            /\ result' = r
            /\ requests' = [requests EXCEPT !.uploaded = status]
            /\ UNCHANGED <<attempts, documentId, nextId>>
       ELSE /\ documentId' = r.value
            /\ nextId' = nextId + 1
            /\ attempts' = 0
            /\ EnterLoop(0, [requests EXCEPT !.uploaded = status,
                                             !.job = nextId + 1])
    /\ UNCHANGED notPoll

\* the 2-second timer fires: the status request is sent
WaitElapses ==
    /\ ppc = "wait"
    /\ ppc' = "check"
    /\ requests' = [requests EXCEPT !.check = @ + 1,
                                    !.ids = @ \cup {documentId}]
    /\ UNCHANGED <<attempts, documentId, result, nextId>>
    /\ UNCHANGED notPoll

\* the answer to a status check as the history keeps it: the document
\* status and error are those of the body of a 200 response
Answered(status, job, error) ==
    [http |-> status,
     job |-> IF status = 200 THEN job ELSE "none",
     error |-> IF status = 200 THEN error ELSE Undefined]

\* a polling loop that ends on `processed` only: `failed` is polled again
StatusRespondsFailedGoesOn(status, job, error) ==
    /\ ppc = "check"
    /\ LET r == checkStatus(status, [id |-> documentId, status |-> job, error |-> error])
           seen == [requests EXCEPT !.last = Answered(status, job, error)] IN
       IF r.kind = "throw"
       THEN /\ ppc' = "idle"
            /\ result' = r
            /\ requests' = seen
            /\ UNCHANGED attempts
       ELSE IF r.value.status = "processed"
       THEN /\ ppc' = "result"
            /\ requests' = [seen EXCEPT !.fetch = @ + 1,
                                        !.ids = @ \cup {documentId}]
            /\ UNCHANGED <<attempts, result>>
       ELSE /\ attempts' = attempts + 1
            /\ EnterLoop(attempts + 1, seen)
    /\ UNCHANGED <<documentId, nextId>>
    /\ UNCHANGED notPoll

\* the status request is answered
StatusResponds(status, job, error) ==
    /\ ppc = "check"
    /\ LET r == checkStatus(status, [id |-> documentId, status |-> job, error |-> error])
           seen == [requests EXCEPT !.last = Answered(status, job, error)] IN
       IF r.kind = "throw"
       THEN /\ ppc' = "idle"
            /\ result' = r
            /\ requests' = seen
            /\ UNCHANGED attempts
       ELSE IF r.value.status = "processed"
       THEN /\ ppc' = "result"
            /\ requests' = [seen EXCEPT !.fetch = @ + 1,
                                        !.ids = @ \cup {documentId}]
            /\ UNCHANGED <<attempts, result>>
       ELSE IF r.value.status = "failed"
       THEN /\ ppc' = "idle"
            /\ result' = Throw(IF r.value.error # Undefined /\ r.value.error # ""
                               THEN <<r.value.error>>
                               ELSE <<"Processing failed">>)
            /\ requests' = seen
            /\ UNCHANGED attempts
       ELSE /\ attempts' = attempts + 1
            /\ EnterLoop(attempts + 1, seen)
    /\ UNCHANGED <<documentId, nextId>>
    /\ UNCHANGED notPoll

\* the result request is answered
ResultResponds(status, error) ==
    /\ ppc = "result"
    /\ ppc' = "idle"
    /\ result' = getResult(status, [id |-> documentId, error |-> error])
    /\ requests' = [requests EXCEPT !.fetched = [http |-> status, error |-> error]]
    /\ UNCHANGED <<attempts, documentId, nextId>>
    /\ UNCHANGED notPoll

NextPoll ==
    \/ ProcessDocumentCall
    \/ \E status \in UploadStatuses : UploadResponds(status)
    \/ WaitElapses
    \/ \E status \in RequestStatuses, job \in JobStatuses, error \in ErrorTexts :
           StatusResponds(status, job, error)
    \/ \E status \in RequestStatuses, error \in ErrorTexts :
           ResultResponds(status, error)

(***************************************************************************)
(* AutoProcessor and its helpers (src/src/api.ts).  A sidecar's content is *)
(* no file, text JSON.parse rejects, or the record markAsProcessed wrote.  *)
(***************************************************************************)
NoContent == [kind |-> "absent"]
Unparsable == [kind |-> "unparsable"]

supportedExtensions ==
    << <<"j","p","g">>, <<"j","p","e","g">>, <<"p","n","g">>, <<"g","i","f">>,
       <<"b","m","p">>, <<"t","i","f","f">>, <<"t","i","f">>,
       <<"h","e","i","c">>, <<"w","e","b","p">>, <<"p","d","f">> >>

\* a size check that refuses the bound itself
validateFileSizeStrict(st) == st.size < 20 * 1024 * 1024

validateFileSize(st) == st.size <= 20 * 1024 * 1024

\* a fingerprint that leaves the size out
getFileHashMtimeOnly(st) == toString(st.mtime)

getFileHash(st) == toString(st.mtime) \o <<"-">> \o toString(st.size)

\* a sidecar path that leaves the directory out
getMetadataFilePathNameOnly(f) ==
    <<".">> \o name(f) \o <<".","o","c","r","-","p","r","o","c","e","s","s","e","d">>

getMetadataFilePath(f) ==
    LET dirPath == parentPath(f)
        metadataFileName ==
            <<".">> \o name(f)
                \o <<".","o","c","r","-","p","r","o","c","e","s","s","e","d">>
    IN  IF dirPath # <<>> THEN dirPath \o <<"/">> \o metadataFileName
        ELSE metadataFileName

\* replace(/^\/+|\/+$/g, '')
RECURSIVE stripSlashes(_)
stripSlashes(s) ==
    IF s = <<>> THEN s
    ELSE IF Head(s) = "/" THEN stripSlashes(Tail(s))
    ELSE IF s[Len(s)] = "/" THEN stripSlashes(SubSeq(s, 1, Len(s) - 1))
    ELSE s

\* an isInWatchFolder that compares the start of the path only
isInWatchFolderPrefixOnly(f) ==
    LET watchFolder == stripSlashes(settings.watchFolder) IN
    startsWith(path(f), watchFolder)

isInWatchFolder(f) ==
    LET watchFolder == stripSlashes(settings.watchFolder) IN
    \/ startsWith(path(f), watchFolder \o <<"/">>)
    \/ (startsWith(path(f), watchFolder) /\ parentPath(f) = watchFolder)

isSupportedFile(f) == toLowerCase(extension(f)) \in Range(supportedExtensions)

\* an isProcessed that looks at the fingerprint only
isProcessedAnyStatus(f, st) ==
    LET metadata == Lookup(meta, getMetadataFilePath(f), NoContent) IN
    IF metadata.kind = "absent" THEN FALSE
    ELSE IF metadata.kind = "unparsable" THEN FALSE
    ELSE metadata.fileHash = getFileHash(st)

\* an isProcessed whose catch answers true: unreadable content counts as done
isProcessedCatchTrue(f, st) ==
    LET metadata == Lookup(meta, getMetadataFilePath(f), NoContent) IN
    IF metadata.kind = "absent" THEN FALSE
    ELSE IF metadata.kind = "unparsable" THEN TRUE
    ELSE metadata.fileHash = getFileHash(st) /\ metadata.status = "success"

\* isProcessed(file) for the file f whose stat is st at the time of the call
isProcessed(f, st) ==
    LET metadata == Lookup(meta, getMetadataFilePath(f), NoContent) IN
    IF metadata.kind = "absent" THEN FALSE
    ELSE IF metadata.kind = "unparsable" THEN FALSE
    ELSE metadata.fileHash = getFileHash(st) /\ metadata.status = "success"

\* a shouldProcess that leaves the type of the file to the service
shouldProcessAnyType(f, st) ==
    IF ~settings.enableAutoProcessing \/ settings.watchFolder = <<>> THEN FALSE
    ELSE IF ~isInWatchFolder(f) THEN FALSE
    ELSE IF ~validateFileSize(st) THEN FALSE
    ELSE ~isProcessed(f, st)

\* shouldProcess(file) for the file f whose stat is st at the time of the call
shouldProcess(f, st) ==
    IF ~settings.enableAutoProcessing \/ settings.watchFolder = <<>> THEN FALSE
    ELSE IF ~isInWatchFolder(f) THEN FALSE
    ELSE IF ~isSupportedFile(f) THEN FALSE
    ELSE IF ~validateFileSize(st) THEN FALSE
    ELSE ~isProcessed(f, st)

\* a record whose fileHash leaves the size out
ProcessedMetadataMtimeOnly(st, status, errorMessage) ==
    [kind |-> "json", fileHash |-> toString(st.mtime), status |-> status,
     errorMessage |-> errorMessage]

\* the record markAsProcessed builds for a file whose stat is st (its
\* processedAt, which nothing reads, is left out)
ProcessedMetadata(st, status, errorMessage) ==
    [kind |-> "json", fileHash |-> getFileHash(st), status |-> status,
     errorMessage |-> errorMessage]

(***************************************************************************)
(* HandwritingOCRPlugin (src/src/main.ts): the callback the queue is built *)
(* with, the two output actions, the settings and the subscriptions.       *)
(***************************************************************************)
\* how processDocument may end for an attempt (see the part above)
RemoteOutcomes ==
    { Return("result"), uploadDocument(403, 1), Throw(<<"Processing timeout">>) }

\* the catch of the output action (main.ts:787-790, 961-964): the failure
\* is shown in a notice and the action returns
outputActionCatch(error) == Return(Undefined)

\* processFile once the output action has settled with outcome o, the file's
\* stat being st: markAsProcessed builds the record and writes it, and the
\* callback settles once the write has ended
processFileEnd(a, o, st) ==
    IF o.kind = "return"
    THEN [a EXCEPT !.pc = "persist",
                   !.metadata = ProcessedMetadata(st, "success", Undefined),
                   !.at = st,
                   !.settle = "fulfilled"]
    ELSE [a EXCEPT !.pc = "persist",
                   !.metadata = ProcessedMetadata(st, "error", o.value),
                   !.at = st,
                   !.settle = "rejected"]

\* the callback of the queue invoked on f, whose stat is st: nothing without
\* an AutoProcessor, else processFile with the action the settings select;
\* with no api client or an oversized file the action returns at once, else
\* it waits for processDocument
onProcess(f, st) ==
    LET a == [pc |-> "remote",
              action |-> settings.autoProcessingAction,
              remote |-> NoResult,
              created |-> 0,
              metadata |-> NoContent,
              at |-> st,
              settle |-> Undefined]
    IN  IF ~autoProcessor THEN [pc |-> "settled"]
        ELSE IF ~api THEN processFileEnd(a, Return(Undefined), st)
        ELSE IF ~validateFileSize(st) THEN processFileEnd(a, Return(Undefined), st)
        ELSE a

\* the queue object and the attempts once every callback that was just
\* invoked has run to its first suspension, the files having the stats
\* given; one that settles at once lets processNext go on to the next entry
RECURSIVE Suspended(_, _, _)
Suspended(q, att, stats) ==
    IF Len(q.inflight) = Len(att) THEN [q |-> q, att |-> att]
    ELSE LET f == q.inflight[Len(q.inflight)]
             a == onProcess(f, stats[f])
         IN  IF a.pc = "settled"
             THEN Suspended(resume(q, Len(q.inflight), "fulfilled"), att, stats)
             ELSE [q |-> q, att |-> Append(att, a)]

SetQueueAndAttempts(r) ==
    /\ SetQ(r.q)
    /\ attempt' = r.att

\* cleanupAutoProcessor: what it leaves of the listener fields and handlers
cleanupAutoProcessor ==
    [handlers |-> [create |-> handlers.create - (IF vaultCreateListener THEN 1 ELSE 0),
                   modify |-> handlers.modify - (IF vaultModifyListener THEN 1 ELSE 0)],
     vaultCreateListener |-> FALSE,
     vaultModifyListener |-> FALSE,
     autoProcessor |-> FALSE]

\* initializeAutoProcessor under the settings s
initializeAutoProcessor(s) ==
    /\ handlers' = cleanupAutoProcessor.handlers
    /\ vaultCreateListener' = cleanupAutoProcessor.vaultCreateListener
    /\ vaultModifyListener' = cleanupAutoProcessor.vaultModifyListener
    /\ IF s.enableAutoProcessing /\ s.watchFolder # <<>>
       THEN /\ autoProcessor' = TRUE
            /\ timers' = timers + 1
       ELSE /\ autoProcessor' = cleanupAutoProcessor.autoProcessor
            /\ UNCHANGED timers

\* a settings control changes the settings to s and calls saveSettings
saveSettings(s) ==
    /\ loaded
    /\ (s.enableAutoProcessing /\ s.watchFolder # <<>>) =>
           timers + handlers.create < MaxHandlers
    /\ settings' = s
    /\ api' = (s.apiKey # "")
    /\ initializeAutoProcessor(s)
    /\ UNCHANGED <<qvars, stat, meta, recorded, answer, loaded, attempt, notes>>
    /\ UNCHANGED notPlugin

\* the timer set by initializeAutoProcessor fires after 1000 ms
GraceTimerFires ==
    /\ timers > 0
    /\ timers' = timers - 1
    /\ handlers' = [create |-> handlers.create + 1, modify |-> handlers.modify + 1]
    /\ vaultCreateListener' = TRUE
    /\ vaultModifyListener' = TRUE
    /\ UNCHANGED <<qvars, svars, loaded, api, autoProcessor, attempt, notes>>
    /\ UNCHANGED notPlugin

onunload ==
    /\ loaded
    /\ loaded' = FALSE
    /\ handlers' = cleanupAutoProcessor.handlers
    /\ vaultCreateListener' = cleanupAutoProcessor.vaultCreateListener
    /\ vaultModifyListener' = cleanupAutoProcessor.vaultModifyListener
    /\ autoProcessor' = cleanupAutoProcessor.autoProcessor
    /\ SetQ(clear(Q))
    /\ UNCHANGED <<svars, api, timers, attempt, notes>>
    /\ UNCHANGED notPlugin

\* a handler that enqueues whatever file it is notified of
RECURSIVE handleWithoutChecks(_, _, _, _)
handleWithoutChecks(n, q, f, st) ==
    IF n = 0 THEN q ELSE handleWithoutChecks(n - 1, add(q, f), f, st)

\* the handler of a create or modify notification run n times on the file f
\* whose stat is st: the queue object it leaves
RECURSIVE handle(_, _, _, _)
handle(n, q, f, st) ==
    IF n = 0 THEN q
    ELSE handle(n - 1,
                IF autoProcessor /\ shouldProcess(f, st) THEN add(q, f) ELSE q,
                f, st)

\* the vault changes f and notifies the n registered handlers of the event
Notify(n, f, st) ==
    /\ stat' = Put(stat, f, st)
    /\ LET r == Suspended(handle(n, Q, f, st), attempt, Put(stat, f, st)) IN
       /\ Len(r.q.inflight) <= MaxInFlight
       /\ SetQueueAndAttempts(r)
    /\ answer' = IF n = 0 THEN answer
                 ELSE IF autoProcessor
                 THEN [file |-> f, value |-> shouldProcess(f, st), called |-> TRUE]
                 ELSE [file |-> f, value |-> FALSE, called |-> FALSE]
    /\ UNCHANGED <<settings, meta, recorded, loaded, api, autoProcessor,
                   vaultCreateListener, vaultModifyListener, handlers, timers,
                   notes>>
    /\ UNCHANGED notPlugin

VaultCreate(f, st) ==
    /\ f \notin DOMAIN stat
    /\ Notify(handlers.create, f, st)

VaultModify(f, st) ==
    /\ f \in DOMAIN stat
    /\ Notify(handlers.modify, f, st)

\* processDocument settles for the i-th in-flight attempt: a failure is
\* caught by the output action, a result lets it go on to write its output
RemoteSettles(i, o) ==
    /\ i \in DOMAIN attempt
    /\ attempt[i].pc = "remote"
    /\ attempt' = [attempt EXCEPT ![i] =
          IF o.kind = "throw"
          THEN processFileEnd([@ EXCEPT !.remote = o], outputActionCatch(o),
                              stat[inflight[i]])
          ELSE [@ EXCEPT !.remote = o, !.pc = "write"]]
    /\ UNCHANGED <<qvars, svars, loaded, api, autoProcessor, vaultCreateListener,
                   vaultModifyListener, handlers, timers, notes>>
    /\ UNCHANGED notPlugin

\* the output action writes its artifact (ok tells whether the vault's
\* create or append succeeds; a failure is caught by the action) and
\* returns
OutputWritten(i, ok) ==
    /\ i \in DOMAIN attempt
    /\ attempt[i].pc = "write"
    /\ LET f == inflight[i]
           note == [kind |-> "note", file |-> f]
           companion == [kind |-> "companion", file |-> f]
           skip == /\ attempt[i].action = "append-source"
                   /\ companion \notin notes
                   /\ autoProcessor
                   /\ isProcessed(f, stat[f])
           written == ok /\ ~skip
       IN
       /\ notes' = IF ~written THEN notes
                   ELSE IF attempt[i].action = "new-note" THEN notes \cup {note}
                   ELSE notes \cup {companion}
       /\ attempt' = [attempt EXCEPT ![i] =
             processFileEnd([@ EXCEPT !.created = IF written THEN 1 ELSE 0],
                            IF ok \/ skip THEN Return(Undefined)
                            ELSE outputActionCatch(Undefined),
                            stat[f])]
    /\ UNCHANGED <<qvars, svars, loaded, api, autoProcessor, vaultCreateListener,
                   vaultModifyListener, handlers, timers>>
    /\ UNCHANGED notPlugin

\* a write of the sidecar after which the attempt writes it once more
SidecarWrittenAgain(i, persisted) ==
    /\ i \in DOMAIN attempt
    /\ attempt[i].pc = "persist"
    /\ persisted
    /\ getMetadataFilePath(inflight[i]) \notin DOMAIN meta
    /\ meta' = Put(meta, getMetadataFilePath(inflight[i]), attempt[i].metadata)
    /\ recorded' = Put(recorded, getMetadataFilePath(inflight[i]), attempt[i].at)
    /\ UNCHANGED <<qvars, settings, stat, answer, avars>>
    /\ UNCHANGED notPlugin

\* the write of the sidecar ends (persisted tells whether the vault's create
\* or modify succeeded; a failure is caught and logged by markAsProcessed),
\* processFile returns or rethrows, and the queue goes on
SidecarWritten(i, persisted) ==
    /\ i \in DOMAIN attempt
    /\ attempt[i].pc = "persist"
    /\ LET f == inflight[i] IN
       /\ meta' = IF persisted
                  THEN Put(meta, getMetadataFilePath(f), attempt[i].metadata)
                  ELSE meta
       /\ recorded' = IF persisted
                      THEN Put(recorded, getMetadataFilePath(f), attempt[i].at)
                      ELSE recorded
       /\ SetQueueAndAttempts(
              Suspended(resume(Q, i, attempt[i].settle), Remove(attempt, i), stat))
    /\ UNCHANGED <<settings, stat, answer, loaded, api, autoProcessor,
                   vaultCreateListener, vaultModifyListener, handlers, timers, notes>>
    /\ UNCHANGED notPlugin

(***************************************************************************)
(* One attempt of processFile with the new-note action in detail: the      *)
(* note extractToNewNote builds from the result of processDocument, and    *)
(* the record written after it (src/src/main.ts:701-791, api.ts:323-343).  *)
(* A note is a sequence of parts; a DocumentResult is its pages, in        *)
(* order, and the pages its optional thumbnails array has an entry for.    *)
(***************************************************************************)
NoExtract == [pc |-> "idle"]

\* the results the remote service may return: pages 1..n, and no
\* thumbnails array or one with entries for some of the pages
DocumentResults ==
    { [results |-> [p \in 1..n |-> p], thumbnails |-> t] :
        n \in 1..MaxPages,
        t \in {[present |-> FALSE, pages |-> {}]}
               \cup {[present |-> TRUE, pages |-> s] : s \in SUBSET (1..MaxPages)} }

\* the loop over result.results (main.ts:726-745); downloaded tells whether
\* downloadThumbnail and saveThumbnail succeed
RECURSIVE pageSections(_, _, _, _)
pageSections(results, includeThumbnails, thumbnails, downloaded) ==
    IF results = <<>> THEN <<>>
    ELSE LET p == Head(results)
             heading == [part |-> "heading", page |-> p]
             image == [part |-> "image", page |-> p]
             top == IF includeThumbnails /\ thumbnails.present
                    THEN IF p \in thumbnails.pages
                         THEN IF downloaded THEN <<heading, image>> ELSE <<heading>>
                         ELSE <<>>
                    ELSE <<heading>>
         IN  top \o <<[part |-> "transcript", page |-> p]>>
                 \o pageSections(Tail(results), includeThumbnails, thumbnails,
                                 downloaded)

\* noteContent as extractToNewNote builds it for the file f
noteContent(f, r, includeThumbnails, downloaded) ==
    <<[part |-> "title", page |-> 0]>>
        \o pageSections(r.results, includeThumbnails, r.thumbnails, downloaded)
        \o <<[part |-> "footer", page |-> 0]>>

\* processFile is called on f (stat st) with the new-note action, an api
\* client and a file within the size limit; processDocument returns r and
\* extractToNewNote creates the note under a name not yet in use
ExtractToNewNote(f, st, r, includeThumbnails, downloaded) ==
    /\ extract.pc = "idle"
    /\ validateFileSize(st)
    /\ r.thumbnails.pages \subseteq Range(r.results)
    /\ stat' = Put(stat, f, st)
    /\ extract' = [pc |-> "markAsProcessed",
                   file |-> f,
                   result |-> r,
                   includeThumbnails |-> includeThumbnails,
                   created |-> <<noteContent(f, r, includeThumbnails, downloaded)>>]
    /\ UNCHANGED <<meta, recorded>>
    /\ UNCHANGED notNote

\* the output action has returned: processFile calls markAsProcessed with
\* 'success', which writes the sidecar
MarkAsProcessedSuccess ==
    /\ extract.pc = "markAsProcessed"
    /\ meta' = Put(meta, getMetadataFilePath(extract.file),
                   ProcessedMetadata(stat[extract.file], "success", Undefined))
    /\ recorded' = Put(recorded, getMetadataFilePath(extract.file),
                       stat[extract.file])
    /\ extract' = [extract EXCEPT !.pc = "done"]
    /\ UNCHANGED stat
    /\ UNCHANGED notNote

NextNote ==
    \/ \E f \in {"f1", "f2"}, st \in {[mtime |-> 7, size |-> 11], [mtime |-> 71, size |-> 1]},
          r \in DocumentResults, includeThumbnails \in BOOLEAN, downloaded \in BOOLEAN :
            ExtractToNewNote(f, st, r, includeThumbnails, downloaded)
    \/ MarkAsProcessedSuccess

\* no processFile call behind the queue has ended, none is in progress
NoLast == [file |-> "none"]

NoCall == [pc |-> "idle", last |-> NoLast]

(***************************************************************************)
(* The state after construction: an empty idle queue, no processDocument   *)
(* call, the default settings, an empty vault.                             *)
(***************************************************************************)
\* DEFAULT_SETTINGS, with the api key as "" or "key"
DEFAULT_SETTINGS ==
    [apiKey |-> "", enableAutoProcessing |-> FALSE, watchFolder |-> <<>>,
     autoProcessingAction |-> "new-note"]

NoAnswer == [file |-> "none", value |-> FALSE, called |-> FALSE]

Init ==
    /\ queue = <<>>
    /\ processing = FALSE
    /\ inflight = <<>>
    /\ addCalls = <<>>
    /\ started = <<>>
    /\ completed = <<>>
    /\ discarded = <<>>
    /\ everCleared = FALSE
    /\ ppc = "idle"
    /\ attempts = 0
    /\ documentId = Undefined
    /\ result = NoResult
    /\ nextId = 0
    /\ requests = NoRequests
    /\ settings = DEFAULT_SETTINGS
    /\ stat = <<>>
    /\ meta = <<>>
    /\ recorded = <<>>
    /\ answer = NoAnswer
    /\ loaded = TRUE
    /\ api = FALSE
    /\ autoProcessor = FALSE
    /\ vaultCreateListener = FALSE
    /\ vaultModifyListener = FALSE
    /\ handlers = [create |-> 0, modify |-> 0]
    /\ timers = 0
    /\ attempt = <<>>
    /\ notes = {}
    /\ extract = NoExtract
    /\ call = NoCall
    /\ artifacts = <<>>
    /\ notices = <<>>

(***************************************************************************)
(* The queue on its own, driven by any sequence of add(), clear() and      *)
(* callback completions, with a callback that may fulfil or reject.        *)
(***************************************************************************)
\* the files the stand-alone queue is driven with
QueueFiles == {"f1", "f2", "f6"}

\* what a step that may have invoked a callback adds to the history
Invoked == IF Len(completed') + Len(inflight') > Len(started)
           THEN <<inflight'[Len(inflight')]>>
           ELSE <<>>

QAdd(f) ==
    /\ Len(addCalls) < MaxAdds
    /\ ~processing => Len(inflight) < MaxInFlight
    /\ SetQ(add(Q, f))
    /\ addCalls' = Append(addCalls,
           [file |-> f, pending |-> \E i \in DOMAIN queue : path(queue[i]) = path(f)])
    /\ completed' = completed
    /\ started' = started \o Invoked
    /\ UNCHANGED <<discarded, everCleared>>
    /\ UNCHANGED notQueue

QSettle(i, outcome) ==
    /\ i \in DOMAIN inflight
    /\ SetQ(resume(Q, i, outcome))
    /\ completed' = Append(completed,
           [file |-> inflight[i], outcome |-> outcome, behind |-> Len(queue)])
    /\ started' = started \o Invoked
    /\ UNCHANGED <<addCalls, discarded, everCleared>>
    /\ UNCHANGED notQueue

QClear ==
    /\ SetQ(clear(Q))
    /\ discarded' = discarded \o queue
    /\ everCleared' = TRUE
    /\ UNCHANGED <<addCalls, started, completed>>
    /\ UNCHANGED notQueue

NextQueue ==
    \/ \E f \in QueueFiles : QAdd(f)
    \/ \E i \in 1..MaxInFlight : QSettle(i, "fulfilled")
    \/ \E i \in 1..MaxInFlight : QSettle(i, "rejected")
    \/ QClear

SpecQueue == Init /\ [][NextQueue]_vars

\* the queue when clear() is never called and every callback settles: the
\* await at queue.ts:35 is resumed once the promise of the callback settles
NextDrain ==
    \/ \E f \in QueueFiles : QAdd(f)
    \/ \E i \in 1..MaxInFlight : QSettle(i, "fulfilled")
    \/ \E i \in 1..MaxInFlight : QSettle(i, "rejected")

CallbackSettles ==
    \E i \in 1..MaxInFlight, outcome \in {"fulfilled", "rejected"} :
        QSettle(i, outcome)

SpecDrain == Init /\ [][NextDrain]_vars /\ WF_vars(CallbackSettles)

(***************************************************************************)
(* processDocument on its own.                                             *)
(***************************************************************************)
SpecPoll == Init /\ [][NextPoll]_vars

(***************************************************************************)
(* The plugin: settings saves, the grace timer, unload, the vault's        *)
(* notifications and the steps of the attempts in flight.                  *)
(***************************************************************************)
PipelineFiles == {"f1"}

PipelineStats == { [mtime |-> 7, size |-> 11], [mtime |-> 71, size |-> 1] }

\* the settings with an api key, auto-processing on and a watch folder
EnabledSettings ==
    [apiKey |-> "key", enableAutoProcessing |-> TRUE,
     watchFolder |-> <<"I","n">>, autoProcessingAction |-> "new-note"]

SettingsChoices ==
    { [apiKey |-> "key", enableAutoProcessing |-> TRUE,
       watchFolder |-> <<"I","n">>, autoProcessingAction |-> "new-note"],
      [apiKey |-> "key", enableAutoProcessing |-> TRUE,
       watchFolder |-> <<"I","n">>, autoProcessingAction |-> "append-source"],
      [apiKey |-> "", enableAutoProcessing |-> TRUE,
       watchFolder |-> <<"I","n">>, autoProcessingAction |-> "new-note"],
      [apiKey |-> "key", enableAutoProcessing |-> FALSE,
       watchFolder |-> <<"I","n">>, autoProcessingAction |-> "new-note"] }

Next ==
    \/ \E s \in SettingsChoices : saveSettings(s)
    \/ GraceTimerFires
    \/ onunload
    \/ \E f \in PipelineFiles, st \in PipelineStats : VaultCreate(f, st)
    \/ \E f \in PipelineFiles, st \in PipelineStats : VaultModify(f, st)
    \/ \E i \in 1..MaxInFlight, o \in RemoteOutcomes : RemoteSettles(i, o)
    \/ \E i \in 1..MaxInFlight, ok \in BOOLEAN : OutputWritten(i, ok)
    \/ \E i \in 1..MaxInFlight, persisted \in BOOLEAN : SidecarWritten(i, persisted)

Spec == Init /\ [][Next]_vars

(***************************************************************************)
(* The pipeline with auto-processing switched on once, on files of a       *)
(* supported and of an unsupported type whose size may pass the maximum.   *)
(***************************************************************************)
GateFiles == {"f1", "f4"}

GateStats == { [mtime |-> 7, size |-> 11], [mtime |-> 8, size |-> 20971521] }

NextGate ==
    \/ saveSettings(EnabledSettings)
    \/ GraceTimerFires
    \/ \E f \in GateFiles, st \in GateStats : VaultCreate(f, st)
    \/ \E f \in GateFiles, st \in GateStats : VaultModify(f, st)
    \/ \E i \in 1..MaxInFlight, o \in RemoteOutcomes : RemoteSettles(i, o)
    \/ \E i \in 1..MaxInFlight, ok \in BOOLEAN : OutputWritten(i, ok)
    \/ \E i \in 1..MaxInFlight, persisted \in BOOLEAN : SidecarWritten(i, persisted)

SpecGate == Init /\ [][NextGate]_vars

(***************************************************************************)
(* The pipeline on one file whose stat never changes: the vault reports    *)
(* its creation and then modifications that leave mtime and size as they   *)
(* were.                                                                   *)
(***************************************************************************)
SameStat == [mtime |-> 7, size |-> 11]

NextSame ==
    \/ \E s \in SettingsChoices : saveSettings(s)
    \/ GraceTimerFires
    \/ VaultCreate("f1", SameStat)
    \/ VaultModify("f1", SameStat)
    \/ \E i \in 1..MaxInFlight, o \in RemoteOutcomes : RemoteSettles(i, o)
    \/ \E i \in 1..MaxInFlight, ok \in BOOLEAN : OutputWritten(i, ok)
    \/ \E i \in 1..MaxInFlight, persisted \in BOOLEAN : SidecarWritten(i, persisted)

SpecSame == Init /\ [][NextSame]_vars

(***************************************************************************)
(* shouldProcess as a function of its inputs: the settings, one file of    *)
(* the vault with its stat, and the content of that file's sidecar.        *)
(***************************************************************************)
WatchFolders ==
    { <<>>, <<"I","n">>, <<"/","I","n","/">>, <<"I","n","/","s">>, <<"/">> }

ShouldSettings ==
    {[DEFAULT_SETTINGS EXCEPT !.enableAutoProcessing = e, !.watchFolder = w] :
        e \in BOOLEAN, w \in WatchFolders}

Stat(m, s) == [mtime |-> m, size |-> s]

ShouldStats ==
    { Stat(7, 11), Stat(71, 1), Stat(7, 1),
      Stat(5, 20971519), Stat(5, 20971520), Stat(5, 20971521) }

ShouldContents ==
    { [content |-> NoContent, at |-> Stat(0, 0)],
      [content |-> Unparsable, at |-> Stat(0, 0)] }
    \cup { [content |-> ProcessedMetadata(st, "success", Undefined), at |-> st] :
             st \in ShouldStats }
    \cup { [content |-> ProcessedMetadata(st, "error", "Insufficient credits"),
            at |-> st] : st \in ShouldStats }

InitShould ==
    /\ queue = <<>>
    /\ processing = FALSE
    /\ inflight = <<>>
    /\ addCalls = <<>>
    /\ started = <<>>
    /\ completed = <<>>
    /\ discarded = <<>>
    /\ everCleared = FALSE
    /\ ppc = "idle"
    /\ attempts = 0
    /\ documentId = Undefined
    /\ result = NoResult
    /\ nextId = 0
    /\ requests = NoRequests
    /\ settings \in ShouldSettings
    /\ \E f \in TFile, st \in ShouldStats, c \in ShouldContents :
         /\ stat = Put(<<>>, f, st)
         /\ meta = IF c.content.kind = "absent" THEN <<>>
                   ELSE Put(<<>>, getMetadataFilePath(f), c.content)
         /\ recorded = IF c.content.kind = "json"
                       THEN Put(<<>>, getMetadataFilePath(f), c.at) ELSE <<>>
    /\ answer = NoAnswer
    /\ loaded = TRUE
    /\ api = FALSE
    /\ autoProcessor = FALSE
    /\ vaultCreateListener = FALSE
    /\ vaultModifyListener = FALSE
    /\ handlers = [create |-> 0, modify |-> 0]
    /\ timers = 0
    /\ attempt = <<>>
    /\ notes = {}
    /\ extract = NoExtract
    /\ call = NoCall
    /\ artifacts = <<>>
    /\ notices = <<>>

\* a shouldProcess that enqueues the file itself when it answers true
ShouldProcessCallEnqueues(f) ==
    /\ f \in DOMAIN stat
    /\ answer' = [file |-> f, value |-> shouldProcess(f, stat[f]), called |-> TRUE]
    /\ queue' = IF shouldProcess(f, stat[f]) THEN Append(queue, f) ELSE queue
    /\ UNCHANGED <<settings, stat, meta, recorded>>
    /\ UNCHANGED <<processing, inflight, hvars, pvars, avars, nvars>>

\* shouldProcess is called on the file f of the vault and returns
ShouldProcessCall(f) ==
    /\ f \in DOMAIN stat
    /\ answer' = [file |-> f, value |-> shouldProcess(f, stat[f]), called |-> TRUE]
    /\ UNCHANGED <<settings, stat, meta, recorded>>
    /\ UNCHANGED notShould

NextShould == \E f \in TFile : ShouldProcessCall(f)

SpecShould == InitShould /\ [][NextShould]_vars


(***************************************************************************)
(* One successful attempt with the new-note action, in detail.             *)
(***************************************************************************)
SpecNote == Init /\ [][NextNote]_vars

(***************************************************************************)
(* AutoProcessor.processFile (src/src/api.ts:323-343) as the callback of   *)
(* a ProcessingQueue, with an output action that is any function: it may   *)
(* return or throw.  call is the invocation in progress, with what the     *)
(* last one that ended did.                                                *)
(***************************************************************************)
\* how the output action handed to processFile may settle
ActionOutcomes == {Return(Undefined), Throw(<<"Insufficient credits">>)}

\* processFile is invoked on f, whose stat is st: it awaits the output action
processFileStart(f, st, last) ==
    [pc |-> "action", file |-> f, thrown |-> NoResult, metadata |-> NoContent,
     at |-> st, settle |-> Undefined, last |-> last]

\* what the queue object q leaves of the call: a new invocation on the file
\* it has handed to the callback, or nothing in progress
Invocation(q, last) ==
    IF q.inflight = <<>> THEN [pc |-> "idle", last |-> last]
    ELSE processFileStart(q.inflight[1], stat[q.inflight[1]], last)

\* add(file) is called on the queue
ProcessFileAdd(f) ==
    /\ f \in DOMAIN stat
    /\ SetQ(add(Q, f))
    /\ call' = IF call.pc = "idle" THEN Invocation(add(Q, f), call.last) ELSE call
    /\ UNCHANGED <<meta, recorded>>
    /\ UNCHANGED notProcessFile

\* the output action settles with o: markAsProcessed builds its record
OutputActionSettles(o) ==
    /\ call.pc = "action"
    /\ call' = processFileEnd([call EXCEPT !.thrown = o], o, stat[call.file])
    /\ UNCHANGED <<qvars, meta, recorded>>
    /\ UNCHANGED notProcessFile

\* what processFile does when the record it built has been dealt with: it
\* returns, or rethrows what the output action threw
Raised == IF call.settle = "fulfilled" THEN Return(Undefined) ELSE call.thrown

\* the call ends as settle, having raised `raised`, and the queue goes on
EndCall(persisted, settle, raised) ==
    /\ meta' = IF persisted
               THEN Put(meta, getMetadataFilePath(call.file), call.metadata)
               ELSE meta
    /\ recorded' = IF persisted
                   THEN Put(recorded, getMetadataFilePath(call.file), call.at)
                   ELSE recorded
    /\ SetQ(resume(Q, 1, settle))
    /\ call' = Invocation(resume(Q, 1, settle),
                          [file |-> call.file, thrown |-> call.thrown,
                           raised |-> raised, persisted |-> persisted,
                           behind |-> Len(queue),
                           went |-> Len(resume(Q, 1, settle).inflight)])
    /\ UNCHANGED notProcessFile

\* a markAsProcessed without its try/catch: a failed write rejects the call
MarkAsProcessedUncaught(persisted) ==
    /\ call.pc = "persist"
    /\ IF persisted THEN EndCall(TRUE, call.settle, Raised)
       ELSE EndCall(FALSE, "rejected", Throw(<<"write failed">>))

\* the vault write of markAsProcessed ends (persisted tells whether it
\* succeeded; a failure is caught and logged), processFile returns or
\* rethrows, and the queue goes on
MarkAsProcessedEnds(persisted) ==
    /\ call.pc = "persist"
    /\ EndCall(persisted, call.settle, Raised)

\* shouldProcess is called on the file of the call that ended last
ShouldProcessAfter(f) ==
    /\ call.last.file = f
    /\ ShouldProcessCall(f)

NextProcessFile ==
    \/ \E f \in TFile : ProcessFileAdd(f)
    \/ \E o \in ActionOutcomes : OutputActionSettles(o)
    \/ \E persisted \in BOOLEAN : MarkAsProcessedEnds(persisted)
    \/ \E f \in TFile : ShouldProcessAfter(f)

(***************************************************************************)
(* AutoProcessor.processFile as the callback of the queue, with an output  *)
(* action that may return or throw and a vault whose writes may fail; the  *)
(* file, its stat and the sidecar it starts with are drawn.                *)
(***************************************************************************)
InitProcessFile ==
    /\ queue = <<>>
    /\ processing = FALSE
    /\ inflight = <<>>
    /\ addCalls = <<>>
    /\ started = <<>>
    /\ completed = <<>>
    /\ discarded = <<>>
    /\ everCleared = FALSE
    /\ ppc = "idle"
    /\ attempts = 0
    /\ documentId = Undefined
    /\ result = NoResult
    /\ nextId = 0
    /\ requests = NoRequests
    /\ settings \in {s \in SettingsChoices : s.apiKey # ""}
    /\ \E f \in {"f1", "f2"}, st \in PipelineStats, c \in ShouldContents :
         /\ c.at \in PipelineStats \cup {Stat(0, 0)}
         /\ stat = Put(Put(<<>>, "f1", st), "f2", st)
         /\ meta = IF c.content.kind = "absent" THEN <<>>
                   ELSE Put(<<>>, getMetadataFilePath(f), c.content)
         /\ recorded = IF c.content.kind = "json"
                       THEN Put(<<>>, getMetadataFilePath(f), c.at) ELSE <<>>
    /\ answer = NoAnswer
    /\ loaded = TRUE
    /\ api = TRUE
    /\ autoProcessor = TRUE
    /\ vaultCreateListener = FALSE
    /\ vaultModifyListener = FALSE
    /\ handlers = [create |-> 0, modify |-> 0]
    /\ timers = 0
    /\ attempt = <<>>
    /\ notes = {}
    /\ extract = NoExtract
    /\ call = NoCall
    /\ artifacts = <<>>
    /\ notices = <<>>

SpecProcessFile == InitProcessFile /\ [][NextProcessFile]_vars

(***************************************************************************)
(* The files the pipeline itself writes for a source file, by kind, with   *)
(* the paths the code gives them, and the vault's notification of each to  *)
(* the handlers (src/src/main.ts:701-813, 890-965, src/src/api.ts:302-321, *)
(* 434-439).  The settings also have the folders of the output actions.    *)
(***************************************************************************)
\* basename.replace(/\.[^/.]+$/, ""): a last extension is taken off
withoutExtension(s) ==
    IF lastIndexOf(s, ".") = 0 \/ lastIndexOf(s, ".") = Len(s) THEN s
    ELSE SubSeq(s, 1, lastIndexOf(s, ".") - 1)

\* noteName of extractToNewNote for the file f
noteName(f) == <<"O","C","R"," ","-"," ">> \o withoutExtension(basename(f))

\* the path extractToNewNote creates the note at, no note having that name
notePath(f) ==
    IF settings.noteFolder # <<>>
    THEN settings.noteFolder \o <<"/">> \o noteName(f) \o <<".","m","d">>
    ELSE noteName(f) \o <<".","m","d">>

\* the path of the companion note of appendToSourceNote
companionPath(f) ==
    IF parentPath(f) # <<"/">> /\ parentPath(f) # <<>>
    THEN parentPath(f) \o <<"/">> \o basename(f) \o <<".","m","d">>
    ELSE basename(f) \o <<".","m","d">>

\* saveThumbnail(data, docName, pageNumber): the path it writes
saveThumbnail(docName, pageNumber) ==
    settings.imageFolder \o <<"/">> \o docName \o <<"/">>
        \o <<"p","a","g","e","-">> \o toString(pageNumber) \o <<".","j","p","g">>

\* the settings tab's choices of the folders
FeedbackSettings ==
    { [apiKey |-> "key", enableAutoProcessing |-> TRUE, watchFolder |-> w,
       autoProcessingAction |-> act, includeThumbnails |-> t,
       noteFolder |-> n, imageFolder |-> i] :
        w \in {<<"I","n">>, <<"I","n","/","s">>},
        act \in {"new-note", "append-source"},
        t \in BOOLEAN,
        n \in {<<>>, <<"I","n">>, <<"N">>},
        i \in {<<"O","C","R"," ","T","h","u","m","b","n","a","i","l","s">>,
               <<"I","n">>, <<"I","n","/","s","/","i">>} }

\* the size of the files the pipeline writes
ArtifactStat == [mtime |-> 9, size |-> 5]

\* an attempt on the source file f, which passes shouldProcess, gets a
\* one-page result with its thumbnail, writes its output and its record
WriteArtifacts(f) ==
    /\ artifacts = <<>>
    /\ notices = <<>>
    /\ f \in DOMAIN stat
    /\ shouldProcess(f, stat[f])
    /\ LET output == IF settings.autoProcessingAction = "new-note"
                     THEN Put(<<>>, "note", notePath(f))
                     ELSE Put(<<>>, "companion", companionPath(f))
           images == IF ~settings.includeThumbnails THEN output
                     ELSE Put(output, "thumbnail",
                              saveThumbnail(
                                  IF settings.autoProcessingAction = "new-note"
                                  THEN noteName(f) ELSE basename(f), 1))
           written == Put(images, "sidecar", getMetadataFilePath(f))
       IN  /\ artifacts' = written
           /\ stat' = [a \in DOMAIN stat \cup DOMAIN written |->
                          IF a \in DOMAIN stat THEN stat[a] ELSE ArtifactStat]
    /\ meta' = Put(meta, getMetadataFilePath(f),
                   ProcessedMetadata(stat[f], "success", Undefined))
    /\ UNCHANGED answer
    /\ UNCHANGED notFeedback

\* the vault notifies the handlers of the written file a: shouldProcess
ArtifactNotified(a) ==
    /\ a \in DOMAIN artifacts
    /\ answer' = [file |-> a, value |-> shouldProcess(a, stat[a]), called |-> TRUE]
    /\ UNCHANGED <<stat, meta, artifacts>>
    /\ UNCHANGED notFeedback

NextFeedback ==
    \/ \E f \in {"f1", "f2", "f6"} : WriteArtifacts(f)
    \/ \E a \in {"note", "companion", "thumbnail", "sidecar"} : ArtifactNotified(a)

InitFeedback ==
    /\ queue = <<>>
    /\ processing = FALSE
    /\ inflight = <<>>
    /\ addCalls = <<>>
    /\ started = <<>>
    /\ completed = <<>>
    /\ discarded = <<>>
    /\ everCleared = FALSE
    /\ ppc = "idle"
    /\ attempts = 0
    /\ documentId = Undefined
    /\ result = NoResult
    /\ nextId = 0
    /\ requests = NoRequests
    /\ settings \in FeedbackSettings
    /\ \E f \in {"f1", "f2", "f6"} : stat = Put(<<>>, f, [mtime |-> 7, size |-> 11])
    /\ meta = <<>>
    /\ recorded = <<>>
    /\ answer = NoAnswer
    /\ loaded = TRUE
    /\ api = TRUE
    /\ autoProcessor = TRUE
    /\ vaultCreateListener = TRUE
    /\ vaultModifyListener = TRUE
    /\ handlers = [create |-> 1, modify |-> 1]
    /\ timers = 0
    /\ attempt = <<>>
    /\ notes = {}
    /\ extract = NoExtract
    /\ call = NoCall
    /\ artifacts = <<>>
    /\ notices = <<>>

SpecFeedback == InitFeedback /\ [][NextFeedback]_vars

(***************************************************************************)
(* getUserFriendlyErrorMessage (src/src/main.ts:575-610) on the failures   *)
(* the remote client raises.  The text of a failure is a sequence of       *)
(* characters; a notice is a sequence of strings: one of the fixed         *)
(* messages, or the prefix 'OCR failed: ' followed by the failure's text.  *)
(***************************************************************************)
\* s.includes(sub)
includes(s, sub) ==
    \E i \in 1..(Len(s) - Len(sub) + 1) : SubSeq(s, i, i + Len(sub) - 1) = sub

\* the statuses the generic failures of the client may carry
GenericUploadStatuses == {200, 204, 400, 404, 429, 500, 503}
GenericRequestStatuses == {201, 403, 404, 413, 415, 500}

\* the error texts a failed job or a result payload may carry
ServerTexts ==
    { <<"p","a","g","e"," ","u","n","r","e","a","d","a","b","l","e">>,
      <<"R","e","q","u","e","s","t"," ","T","i","m","e","o","u","t">>,
      <<"N","e","t","w","o","r","k"," ","u","n","r","e","a","c","h","a","b","l","e">> }

\* the message of every failure uploadDocument, checkStatus, getResult and
\* processDocument raise (src/src/api.ts:95-105, 173-178, 194-205, 226-232)
ClientFailures ==
    { <<"I","n","v","a","l","i","d"," ","A","P","I"," ","k","e","y">>,
      <<"I","n","s","u","f","f","i","c","i","e","n","t"," ","c","r","e","d","i","t","s">>,
      <<"U","n","s","u","p","p","o","r","t","e","d"," ","f","i","l","e"," ","t","y","p","e">>,
      <<"F","i","l","e"," ","t","o","o"," ","l","a","r","g","e"," ","(","m","a","x"," ","2","0","M","B",")">>,
      <<"P","r","o","c","e","s","s","i","n","g"," ","t","i","m","e","o","u","t">>,
      <<"P","r","o","c","e","s","s","i","n","g"," ","f","a","i","l","e","d">> }
    \cup { <<"U","p","l","o","a","d"," ","f","a","i","l","e","d",":"," ">> \o toString(s) : s \in GenericUploadStatuses }
    \cup { <<"S","t","a","t","u","s"," ","c","h","e","c","k"," ","f","a","i","l","e","d",":"," ">> \o toString(s) : s \in GenericRequestStatuses }
    \cup { <<"F","a","i","l","e","d"," ","t","o"," ","g","e","t"," ","r","e","s","u","l","t",":"," ">> \o toString(s) : s \in GenericRequestStatuses }
    \cup { <<"O","C","R"," ","f","a","i","l","e","d",":"," ">> \o t : t \in ServerTexts }
    \cup ServerTexts

\* a getUserFriendlyErrorMessage that matches the text as it is written
getUserFriendlyErrorMessageCaseSensitive(error) ==
    LET message == error IN
    IF \/ includes(message, <<"i","n","v","a","l","i","d"," ","a","p","i"," ","k","e","y">>)
       \/ includes(message, <<"4","0","1">>)
       \/ includes(message, <<"u","n","a","u","t","h","o","r","i","z","e","d">>)
    THEN <<"API key invalid. Please update your API key in plugin settings.">>
    ELSE IF \/ includes(message, <<"i","n","s","u","f","f","i","c","i","e","n","t"," ","c","r","e","d","i","t","s">>)
            \/ includes(message, <<"4","0","3">>)
    THEN <<"Insufficient credits. Please check your account balance or upgrade your plan.">>
    ELSE IF \/ includes(message, <<"u","n","s","u","p","p","o","r","t","e","d"," ","f","i","l","e"," ","t","y","p","e">>)
            \/ includes(message, <<"4","1","5">>)
    THEN <<"Unsupported file format. Please use JPG, PNG, PDF, or other supported image formats.">>
    ELSE IF \/ includes(message, <<"f","i","l","e"," ","t","o","o"," ","l","a","r","g","e">>)
            \/ includes(message, <<"4","1","3">>)
    THEN <<"File too large. Maximum file size is 20MB.">>
    ELSE IF \/ includes(message, <<"t","i","m","e","o","u","t">>)
            \/ includes(message, <<"p","r","o","c","e","s","s","i","n","g"," ","t","i","m","e","o","u","t">>)
    THEN <<"Processing timeout. The document may be too complex or the service is busy. Please try again.">>
    ELSE IF \/ includes(message, <<"n","e","t","w","o","r","k">>)
            \/ includes(message, <<"f","e","t","c","h">>)
    THEN <<"Network error. Please check your internet connection and try again.">>
    ELSE <<"OCR failed: ">> \o error

getUserFriendlyErrorMessage(error) ==
    LET message == toLowerCase(error) IN
    IF \/ includes(message, <<"i","n","v","a","l","i","d"," ","a","p","i"," ","k","e","y">>)
       \/ includes(message, <<"4","0","1">>)
       \/ includes(message, <<"u","n","a","u","t","h","o","r","i","z","e","d">>)
    THEN <<"API key invalid. Please update your API key in plugin settings.">>
    ELSE IF \/ includes(message, <<"i","n","s","u","f","f","i","c","i","e","n","t"," ","c","r","e","d","i","t","s">>)
            \/ includes(message, <<"4","0","3">>)
    THEN <<"Insufficient credits. Please check your account balance or upgrade your plan.">>
    ELSE IF \/ includes(message, <<"u","n","s","u","p","p","o","r","t","e","d"," ","f","i","l","e"," ","t","y","p","e">>)
            \/ includes(message, <<"4","1","5">>)
    THEN <<"Unsupported file format. Please use JPG, PNG, PDF, or other supported image formats.">>
    ELSE IF \/ includes(message, <<"f","i","l","e"," ","t","o","o"," ","l","a","r","g","e">>)
            \/ includes(message, <<"4","1","3">>)
    THEN <<"File too large. Maximum file size is 20MB.">>
    ELSE IF \/ includes(message, <<"t","i","m","e","o","u","t">>)
            \/ includes(message, <<"p","r","o","c","e","s","s","i","n","g"," ","t","i","m","e","o","u","t">>)
    THEN <<"Processing timeout. The document may be too complex or the service is busy. Please try again.">>
    ELSE IF \/ includes(message, <<"n","e","t","w","o","r","k">>)
            \/ includes(message, <<"f","e","t","c","h">>)
    THEN <<"Network error. Please check your internet connection and try again.">>
    ELSE <<"OCR failed: ">> \o error

\* an output action catches the failure error and shows its notice
ShowFailure(error) ==
    /\ Len(notices) < MaxNotices
    /\ notices' = Append(notices, [error |-> error,
                                   message |-> getUserFriendlyErrorMessage(error)])
    /\ UNCHANGED notNotice

NextNotice == \E error \in ClientFailures : ShowFailure(error)

SpecNotice == Init /\ [][NextNotice]_vars

(***************************************************************************)
(* Properties of the queue (checked under SpecQueue).                      *)
(***************************************************************************)
Count(s, f) == Cardinality({i \in DOMAIN s : path(s[i]) = path(f)})

NoDuplicates(s) == \A i, j \in DOMAIN s : path(s[i]) = path(s[j]) => i = j

AddedFiles == [i \in DOMAIN addCalls |-> addCalls[i].file]

CompletedFiles == [i \in DOMAIN completed |-> completed[i].file]

\* the step is an add() call
IsAddStep == Len(addCalls') = Len(addCalls) + 1

\* the step is the settling of a callback
IsSettleStep == Len(completed') = Len(completed) + 1

\* C1: at most one processing callback is in flight in every reachable
\* state, for any sequence of add(), clear() and callback completions.
C1_AtMostOneInFlight == Len(inflight) <= 1

\* C2: when N distinct paths are added and clear() is not called, the
\* callback is invoked once per path in the order of the add() calls (what
\* has been invoked followed by what is pending is the sequence of adds, and
\* a pending entry always has a callback in flight ahead of it), and an
\* invocation begins only after the previous one has completed.
C2_SequentialFIFO ==
    (~everCleared /\ NoDuplicates(AddedFiles)) =>
        /\ started \o queue = AddedFiles
        /\ CompletedFiles \o inflight = started
        /\ Len(inflight) <= 1
        /\ (queue # <<>> => Len(inflight) = 1)

C2_Witness ==
    /\ ~everCleared
    /\ NoDuplicates(AddedFiles)
    /\ Len(addCalls) = 3
    /\ Len(completed) = 3
    /\ \E k \in DOMAIN completed : completed[k].behind = 2

\* C7: a callback that rejects does not stop the drain: the step in which
\* it settles hands the head of the pending sequence to the callback, and
\* leaves the rest pending in order.
C7_FailureDoesNotStopDrain ==
    [][(IsSettleStep /\ completed'[Len(completed')].outcome = "rejected"
            /\ queue # <<>>)
        => /\ started' = Append(started, Head(queue))
           /\ queue' = Tail(queue)
           /\ processing'
           /\ Len(inflight') = Len(inflight)]_vars

C7_Witness ==
    \E k \in DOMAIN completed :
        /\ completed[k].outcome = "rejected"
        /\ completed[k].behind = 2
        /\ Len(completed) >= k + 2

\* C8: an add() of a path that is pending (added and not yet started) adds
\* no invocation: every add() of a path that was not pending accounts for
\* exactly one entry that was invoked, is pending or was dropped by clear(),
\* and an add() of a pending path accounts for none.
C8_DedupOneInvocation ==
    \A f \in QueueFiles :
        Cardinality({i \in DOMAIN addCalls :
                        addCalls[i].file = f /\ ~addCalls[i].pending})
          = Count(started, f) + Count(queue, f) + Count(discarded, f)

C8_Witness ==
    /\ ~everCleared
    /\ queue = <<>> /\ inflight = <<>>
    /\ \E i, j \in DOMAIN addCalls :
          /\ i < j
          /\ addCalls[i].file = addCalls[j].file
          /\ ~addCalls[i].pending /\ addCalls[j].pending
          /\ Count(started, addCalls[i].file) = 1

\* C9: the pending sequence never holds two entries with the same path,
\* and an add() of a path that is already pending leaves it unchanged.
C9_NoDuplicatePending ==
    [][/\ NoDuplicates(queue')
       /\ (IsAddStep /\ addCalls'[Len(addCalls')].pending) => queue' = queue]_vars

C9_Witness ==
    /\ Len(queue) = 2
    /\ Len(addCalls) > 0
    /\ addCalls[Len(addCalls)].pending
    /\ addCalls[Len(addCalls)].file \in Range(queue)

\* C10: a path whose callback is in flight is still a queue entry, so an
\* add() of it during the attempt schedules no second invocation: no path
\* is in flight and pending at once.
C10_InFlightIsQueueEntry ==
    \A i \in DOMAIN inflight : \A j \in DOMAIN queue :
        path(inflight[i]) # path(queue[j])

(***************************************************************************)
(* Properties of processDocument (checked under SpecPoll).                 *)
(***************************************************************************)
TimedOut == result.kind = "throw" /\ result.value = <<"Processing timeout">>

\* C5: processDocument never makes a 61st status check; every status check
\* follows one wait of its own; the timeout is raised only after 60 checks;
\* and once 60 checks have been answered with a non-terminal status the
\* call has ended with the timeout.
C5_BoundedPolling ==
    /\ requests.check <= 60
    /\ requests.wait = requests.check + (IF ppc = "wait" THEN 1 ELSE 0)
    /\ TimedOut => (requests.check = 60 /\ attempts = 60)
    /\ attempts = 60 => (ppc = "idle" /\ TimedOut)

C5_Witness ==
    /\ TimedOut
    /\ requests.check = 60
    /\ requests.wait = 60
    /\ requests.fetch = 0

(***************************************************************************)
(* Properties of shouldProcess (checked under SpecShould).                 *)
(***************************************************************************)
\* the watch folder setting without its leading and trailing slashes
TrimmedWatchFolder ==
    LET w == settings.watchFolder
        Slashes(s) == \A i \in DOMAIN s : s[i] = "/"
    IN  CHOOSE t \in {SubSeq(w, i, j) : i \in 1..Len(w) + 1, j \in 0..Len(w)} :
          /\ t = <<>> \/ (t[1] # "/" /\ t[Len(t)] # "/")
          /\ \E a, b \in 0..Len(w) :
                /\ Slashes(SubSeq(w, 1, a))
                /\ Slashes(SubSeq(w, Len(w) - b + 1, Len(w)))
                /\ w = SubSeq(w, 1, a) \o t \o SubSeq(w, Len(w) - b + 1, Len(w))

\* the file's path is the watch folder, a slash, and more
UnderWatchFolder(f) ==
    \E k \in DOMAIN path(f) :
        path(f)[k] = "/" /\ SubSeq(path(f), 1, k - 1) = TrimmedWatchFolder

SameLetter(a, b) ==
    a = b \/ \E k \in DOMAIN UpperCase : {a, b} = {UpperCase[k], LowerCase[k]}

SupportedTypes ==
    { <<"j","p","g">>, <<"j","p","e","g">>, <<"p","n","g">>, <<"g","i","f">>,
      <<"b","m","p">>, <<"t","i","f","f">>, <<"t","i","f">>,
      <<"h","e","i","c">>, <<"w","e","b","p">>, <<"p","d","f">> }

HasSupportedType(f) ==
    \E e \in SupportedTypes :
        /\ Len(e) = Len(extension(f))
        /\ \A i \in DOMAIN e : SameLetter(e[i], extension(f)[i])

\* a record with status=success is stored for f, written when f had the
\* modification time and size it has now
HasSuccessRecordForFingerprint(f) ==
    LET p == getMetadataFilePath(f) IN
    /\ f \in DOMAIN stat
    /\ p \in DOMAIN recorded
    /\ meta[p].status = "success"
    /\ recorded[p].mtime = stat[f].mtime
    /\ recorded[p].size = stat[f].size

\* C6: shouldProcess(file) returns true exactly when auto-processing is
\* enabled with a non-empty watch folder, the file lies under the watch
\* folder, its extension is one of the ten supported ones whatever its
\* case, its size is at most 20*1024*1024, and no record with
\* status=success is stored for the file's current fingerprint.
C6_ShouldProcessIff ==
    answer.file # "none" =>
        (answer.value <=>
            /\ settings.enableAutoProcessing
            /\ settings.watchFolder # <<>>
            /\ UnderWatchFolder(answer.file)
            /\ HasSupportedType(answer.file)
            /\ stat[answer.file].size <= 20971520
            /\ ~HasSuccessRecordForFingerprint(answer.file))

C6_Witness ==
    /\ answer.file = "f2"
    /\ answer.value
    /\ stat["f2"].size = 20971520
    /\ settings.watchFolder = <<"/","I","n","/">>
    /\ getMetadataFilePath("f2") \in DOMAIN recorded
    /\ meta[getMetadataFilePath("f2")].status = "success"


\* C36: a file is inside the watch folder exactly when its path is the
\* watch folder (without leading and trailing slashes), a '/', and more:
\* files directly in the folder and in its subfolders are inside, a file of
\* a sibling folder whose name begins with the watch folder's name is not.
C36_InsideWatchFolderIff ==
    \A f \in DOMAIN stat :
        /\ isInWatchFolder(f) <=> UnderWatchFolder(f)
        /\ isInWatchFolder(f) <=>
               startsWith(path(f), TrimmedWatchFolder \o <<"/">>)
        /\ (TrimmedWatchFolder = <<"I","n">> /\ f = "f3") => ~isInWatchFolder(f)
        /\ (TrimmedWatchFolder = <<"I","n">> /\ f \in {"f1", "f2"}) =>
               isInWatchFolder(f)

C36_Witness ==
    /\ "f3" \in DOMAIN stat
    /\ settings.watchFolder = <<"/","I","n","/">>
    /\ settings.enableAutoProcessing
    /\ HasSupportedType("f3")
    /\ stat["f3"].size <= 20971520
    /\ meta = <<>>
    /\ ~isInWatchFolder("f3")
    /\ answer = [file |-> "f3", value |-> FALSE, called |-> TRUE]

(***************************************************************************)
(* Properties of the auto-processing pipeline (checked under Spec).        *)
(***************************************************************************)
\* C3: an attempt whose remote processing failed writes a sidecar record
\* with status=error and the failure's message, has produced no output
\* artifact, and rejects into the queue's drain loop; the record it writes
\* is never a success record.
C3_RemoteFailureRecordsError ==
    \A i \in DOMAIN attempt :
        (attempt[i].pc = "persist" /\ attempt[i].remote.kind = "throw") =>
            /\ attempt[i].metadata.status = "error"
            /\ attempt[i].metadata.errorMessage = attempt[i].remote.value
            /\ attempt[i].created = 0
            /\ attempt[i].settle = "rejected"

\* C4: once a record with status=success has been persisted for a file at
\* its fingerprint (mtime, size), shouldProcess answers false for the file
\* for as long as the fingerprint is the one recorded, whatever create and
\* modify notifications follow.
C4_Idempotence ==
    \A f \in DOMAIN stat :
        HasSuccessRecordForFingerprint(f) => ~shouldProcess(f, stat[f])

C4_Witness ==
    /\ HasSuccessRecordForFingerprint("f1")
    /\ answer = [file |-> "f1", value |-> FALSE, called |-> TRUE]
    /\ settings.enableAutoProcessing
    /\ autoProcessor
    /\ handlers.modify > 0
    /\ notes # {}
    /\ inflight = <<>>

(***************************************************************************)
(* Properties of clear() (checked under SpecQueue).                        *)
(***************************************************************************)
\* the step is a clear() call: it changes the queue object and is neither
\* an add() nor the settling of a callback
IsClearStep == ~IsAddStep /\ ~IsSettleStep

\* C11: clear() empties the pending sequence without invoking the callback
\* on anything, resets the queue to idle, and leaves the callback in flight
\* running; and whenever the callback is invoked on a file, no attempt
\* begun earlier is still in flight.
C11_ClearDiscardsPendingOnly ==
    [][/\ IsClearStep =>
             /\ queue' = <<>>
             /\ ~processing'
             /\ inflight' = inflight
             /\ started' = started
       /\ Len(started') > Len(started) =>
             inflight' = <<started'[Len(started')]>>]_vars

(***************************************************************************)
(* Properties of the subscriptions and the settings (checked under Spec).  *)
(***************************************************************************)
\* auto-processing is enabled and a watch folder is set
AutoProcessingOn == settings.enableAutoProcessing /\ settings.watchFolder # <<>>

\* C12: while auto-processing is disabled no create or modify handler of
\* the plugin is registered with the vault, and no entry is pending in the
\* queue (the save that disabled it dropped them with clear()).
C12_DisableUnsubscribesAndClears ==
    ~AutoProcessingOn =>
        /\ handlers.create = 0
        /\ handlers.modify = 0
        /\ queue = <<>>

\* C13: while auto-processing is off (before and after the step) nothing
\* is enqueued and no attempt, hence no upload, begins; and a create or
\* modify notification changes neither the queue nor the attempts in
\* flight nor any sidecar.
C13_OffMeansNotProcessed ==
    [][(~AutoProcessingOn /\ ~AutoProcessingOn') =>
          /\ Len(queue') <= Len(queue)
          /\ Len(attempt') <= Len(attempt)
          /\ stat' # stat =>
                /\ queue' = queue
                /\ inflight' = inflight
                /\ attempt' = attempt
                /\ meta' = meta]_vars

C13_Witness ==
    /\ ~AutoProcessingOn
    /\ handlers.create + handlers.modify > 0
    /\ answer = [file |-> "f1", value |-> FALSE, called |-> FALSE]
    /\ isInWatchFolder("f1") /\ isSupportedFile("f1")
    /\ validateFileSize(stat["f1"])
    /\ inflight # <<>>
    /\ queue = <<>>
    /\ meta = <<>>

(***************************************************************************)
(* Further properties of shouldProcess (checked under SpecShould).         *)
(***************************************************************************)
\* the file shouldProcess was called on passes the checks that do not
\* look at its sidecar
OtherwiseEligible ==
    /\ answer.file # "none"
    /\ settings.enableAutoProcessing
    /\ settings.watchFolder # <<>>
    /\ UnderWatchFolder(answer.file)
    /\ HasSupportedType(answer.file)
    /\ stat[answer.file].size <= 20971520

\* the sidecar of the file shouldProcess was called on
AnswerSidecar == getMetadataFilePath(answer.file)

C15_ErrorRecordNeverSticks ==
    (/\ OtherwiseEligible
     /\ AnswerSidecar \in DOMAIN meta
     /\ meta[AnswerSidecar].kind = "json"
     /\ meta[AnswerSidecar].status = "error")
        => answer.value

C15_Witness ==
    /\ OtherwiseEligible
    /\ answer.value
    /\ AnswerSidecar \in DOMAIN meta
    /\ meta[AnswerSidecar].kind = "json"
    /\ meta[AnswerSidecar].status = "error"
    /\ meta[AnswerSidecar].fileHash = getFileHash(stat[answer.file])
    /\ recorded[AnswerSidecar] = stat[answer.file]

\* C20: when the sidecar of a file is missing, or its content cannot be
\* parsed, isProcessed answers false instead of raising: shouldProcess
\* returns a value to its caller, and for a file that passes the folder,
\* type and size checks that value is true.
NoReadableRecord ==
    \/ AnswerSidecar \notin DOMAIN meta
    \/ meta[AnswerSidecar].kind \in {"absent", "unparsable"}

C20_UnreadableRecordMeansUnprocessed ==
    /\ answer.file # "none" => answer.called /\ answer.value \in BOOLEAN
    /\ (OtherwiseEligible /\ NoReadableRecord) => answer.value

C20_Witness ==
    /\ OtherwiseEligible
    /\ AnswerSidecar \in DOMAIN meta
    /\ meta[AnswerSidecar] = Unparsable
    /\ answer.called
    /\ answer.value

\* C28: a call of shouldProcess, whatever it returns, leaves the queue, the
\* sidecar records, the files and the settings as they were.
C28_ShouldProcessHasNoSideEffects ==
    [][answer'.called =>
          /\ queue' = queue
          /\ processing' = processing
          /\ inflight' = inflight
          /\ meta' = meta
          /\ stat' = stat
          /\ settings' = settings
          /\ notes' = notes]_vars

C28_Witness ==
    /\ OtherwiseEligible
    /\ answer.called
    /\ answer.value
    /\ queue = <<>>
    /\ inflight = <<>>
    /\ AnswerSidecar \in DOMAIN meta
    /\ meta[AnswerSidecar].kind = "json"
    /\ meta[AnswerSidecar].status = "success"

(***************************************************************************)
(* Properties of the sidecar records (checked under Spec).                 *)
(***************************************************************************)
\* the pcs an attempt at pc may be at after a step that does not end it
LaterPcs(pc) ==
    CASE pc = "remote" -> {"remote", "write", "persist"}
      [] pc = "write" -> {"write", "persist"}
      [] pc = "persist" -> {"persist"}

\* the step ends no attempt: each one is still there, where it was or
\* further on, and those that wait for the write of their record have not
\* moved
KeepsAttempts ==
    /\ Len(attempt') >= Len(attempt)
    /\ \A i \in DOMAIN attempt :
          /\ inflight'[i] = inflight[i]
          /\ attempt'[i].pc \in LaterPcs(attempt[i].pc)
          /\ attempt[i].pc = "persist" =>
                /\ attempt'[i].metadata.status = attempt[i].metadata.status
                /\ attempt'[i].metadata.fileHash = attempt[i].metadata.fileHash
                /\ attempt'[i].settle = attempt[i].settle
                /\ attempt'[i].created = attempt[i].created

\* the step ends the i-th attempt: the others are kept in order, and the
\* queue goes on to its next entry if it has one
EndsAttempt(i) ==
    /\ SubSeq(attempt', 1, Len(attempt) - 1) = Remove(attempt, i)
    /\ SubSeq(inflight', 1, Len(inflight) - 1) = Remove(inflight, i)
    /\ IF queue = <<>> \/ ~processing THEN Len(attempt') = Len(attempt) - 1
       ELSE Len(queue') < Len(queue)

\* C16: an attempt's record is written once, by the step that ends the
\* attempt, and only when its output action has resolved: a step either
\* ends no attempt and leaves every sidecar as it is (so nothing is written
\* when a file is enqueued or while its attempt runs), or ends one attempt
\* whose output action has resolved and writes at most that attempt's
\* record to that file's sidecar.
C16_RecordOncePerAttempt ==
    [][\/ KeepsAttempts /\ meta' = meta
       \/ \E i \in DOMAIN attempt :
             /\ attempt[i].pc = "persist"
             /\ EndsAttempt(i)
             /\ meta' \in {meta, Put(meta, getMetadataFilePath(inflight[i]),
                                     attempt[i].metadata)}]_vars

C16_Witness ==
    /\ attempt = <<>>
    /\ getMetadataFilePath("f1") \in DOMAIN meta
    /\ [kind |-> "note", file |-> "f1"] \in notes
    /\ [kind |-> "companion", file |-> "f1"] \in notes

(***************************************************************************)
(* Properties of a successful new-note attempt (checked under SpecNote).   *)
(***************************************************************************)
\* the positions of the note n that hold the given part of page p
PartsOf(n, part, p) == {i \in DOMAIN n : n[i].part = part /\ n[i].page = p}

\* the note n has one section for page p: one heading for the page, with
\* one transcript of the page after it
HasSectionFor(n, p) ==
    /\ Cardinality(PartsOf(n, "heading", p)) = 1
    /\ Cardinality(PartsOf(n, "transcript", p)) = 1
    /\ \A i \in PartsOf(n, "heading", p), j \in PartsOf(n, "transcript", p) : i < j

\* C17: a successful attempt with the new-note action creates exactly one
\* note, which has one section per returned page and ends with the source
\* link; the sidecar is written after the note, with status=success and the
\* fileHash "<mtime>-<size>" of the source file.
C17_NoteThenSuccessRecord ==
    extract.pc \in {"markAsProcessed", "done"} =>
        LET f == extract.file
            sidecar == getMetadataFilePath(f)
        IN  /\ Len(extract.created) = 1
            /\ \A p \in Range(extract.result.results) :
                  HasSectionFor(extract.created[1], p)
            /\ extract.created[1][Len(extract.created[1])].part = "footer"
            /\ extract.pc = "markAsProcessed" => sidecar \notin DOMAIN meta
            /\ extract.pc = "done" =>
                  /\ sidecar \in DOMAIN meta
                  /\ meta[sidecar].status = "success"
                  /\ meta[sidecar].fileHash =
                        toString(stat[f].mtime) \o <<"-">> \o toString(stat[f].size)

(***************************************************************************)
(* Properties of the sidecar store (checked under Spec).                   *)
(***************************************************************************)
\* ".<name>.ocr-processed" in the directory of f: the path of f with a dot
\* put in front of its last component and the suffix behind it
SidecarInSameDirectory(f) ==
    LET k == CHOOSE i \in DOMAIN path(f) :
                 path(f)[i] = "/" /\ \A j \in i + 1..Len(path(f)) : path(f)[j] # "/"
    IN  SubSeq(path(f), 1, k) \o <<".">> \o SubSeq(path(f), k + 1, Len(path(f)))
            \o <<".","o","c","r","-","p","r","o","c","e","s","s","e","d">>

\* the files that lie in a folder, as every watched file does
FilesInFolders == {f \in TFile : \E i \in DOMAIN path(f) : path(f)[i] = "/"}

\* C18: whenever a sidecar is written, the sidecar path of a file is
\* ".<name>.ocr-processed" in the file's directory and two distinct files
\* never have the same sidecar path; every stored sidecar is the sidecar of
\* a file of the vault (so there is at most one per file); and a write for
\* a file that has a record replaces it: the set of stored sidecars stays
\* the same.
C18_OneRecordPerFile ==
    [][meta' # meta =>
          /\ \A f \in FilesInFolders :
                getMetadataFilePath(f) = SidecarInSameDirectory(f)
          /\ \A f, g \in TFile :
                f # g => getMetadataFilePath(f) # getMetadataFilePath(g)
          /\ DOMAIN meta' \subseteq {getMetadataFilePath(f) : f \in DOMAIN stat'}
          /\ Cardinality(DOMAIN meta') <= Cardinality(DOMAIN stat')
          /\ \A i \in DOMAIN inflight :
                getMetadataFilePath(inflight[i]) \in DOMAIN meta
                   => DOMAIN meta' = DOMAIN meta]_vars

C18_Witness ==
    \E i \in DOMAIN attempt :
        /\ attempt[i].pc = "persist"
        /\ getMetadataFilePath(inflight[i]) \in DOMAIN meta
        /\ meta[getMetadataFilePath(inflight[i])].fileHash # attempt[i].metadata.fileHash
        /\ Cardinality(DOMAIN meta) = 1

(***************************************************************************)
(* C19  When the write of the sidecar record fails, markAsProcessed still  *)
(* completes: processFile returns if the output action returned and        *)
(* rethrows what the action threw otherwise, the queue hands its next      *)
(* entry to the callback, and shouldProcess on that file, which has no     *)
(* success record for its fingerprint, answers true.                       *)
(***************************************************************************)
PersistFailed == call.last.file # "none" /\ ~call.last.persisted

C19_PersistFailureIsSwallowed ==
    PersistFailed =>
        /\ call.last.raised.kind = call.last.thrown.kind
        /\ call.last.raised.kind = "throw" =>
               call.last.raised.value = call.last.thrown.value
        /\ call.last.behind > 0 => call.last.went = 1
        /\ (/\ settings.enableAutoProcessing
            /\ settings.watchFolder # <<>>
            /\ UnderWatchFolder(call.last.file)
            /\ HasSupportedType(call.last.file)
            /\ stat[call.last.file].size <= 20971520
            /\ ~HasSuccessRecordForFingerprint(call.last.file))
               => shouldProcess(call.last.file, stat[call.last.file])

C19_Witness ==
    /\ PersistFailed
    /\ call.last.thrown.kind = "throw"
    /\ call.last.raised = call.last.thrown
    /\ call.last.behind > 0
    /\ call.last.went = 1
    /\ ~HasSuccessRecordForFingerprint(call.last.file)
    /\ answer = [file |-> call.last.file, value |-> TRUE, called |-> TRUE]

(***************************************************************************)
(* Forward progress of the queue (checked under SpecDrain: clear() is not  *)
(* called and every callback that was invoked settles).                    *)
(***************************************************************************)
\* the queue holds nothing and awaits no callback
Drained == queue = <<>> /\ inflight = <<>>

\* C29: every file that add() has put in the pending sequence eventually
\* has the callback invoked on it; when the pending sequence is empty and
\* the last callback has settled the queue is idle (processing is false);
\* and an add() on the idle queue starts the callback on its file at once.
C29_ForwardProgress ==
    /\ \A f \in QueueFiles :
          (f \in Range(queue)) ~> (f \in Range(inflight))
    /\ [](Drained => ~processing)
    /\ [][(Drained /\ IsAddStep) =>
             (inflight' = <<addCalls'[Len(addCalls')].file>> /\ queue' = <<>>)]_vars

C29_Witness ==
    /\ Drained
    /\ ~processing
    /\ Len(completed) = 3
    /\ completed[1].outcome = "rejected"
    /\ completed[1].behind = 2
    /\ Len(started) = 3

(***************************************************************************)
(* Properties of processDocument and its requests (checked under SpecPoll).*)
(***************************************************************************)
\* the document status of the last answered status check of the running call
LastJob == requests.last.job

\* the text the last status answer carried as its error, if any
ServerErrorGiven == requests.last.error # Undefined /\ requests.last.error # ""

\* C21: processDocument stops polling at the first terminal status: after
\* `processed` the result is requested once and what getResult gives is the
\* outcome; after `failed` the call has ended with the server's error text,
\* or with 'Processing failed' when there is none, and nothing was fetched;
\* no wait and no status check follows a terminal status; after `new` and
\* after `processing` the loop goes on (or ends with the timeout).
C21_StopsAtTerminalStatus ==
    /\ LastJob \in {"processed", "failed"} => ppc \in {"result", "idle"}
    /\ LastJob = "processed" =>
          /\ requests.fetch = 1
          /\ requests.wait = requests.check
          /\ ppc = "idle" => result.kind \in {"return", "throw"}
          /\ (ppc = "idle" /\ result.kind = "return") =>
                 result.value.id = documentId
    /\ LastJob = "failed" =>
          /\ requests.fetch = 0
          /\ requests.wait = requests.check
          /\ result.kind = "throw"
          /\ result.value = IF ServerErrorGiven THEN <<requests.last.error>>
                            ELSE <<"Processing failed">>
    /\ LastJob \in {"new", "processing"} =>
          /\ requests.fetch = 0
          /\ \/ ppc \in {"wait", "check"}
             \/ ppc = "idle" /\ TimedOut
    /\ (ppc = "idle" /\ result.kind = "return") => LastJob = "processed"
    /\ requests.fetch > 0 => LastJob = "processed"

C21_Witness ==
    /\ LastJob = "failed"
    /\ ~ServerErrorGiven
    /\ requests.check = 3
    /\ requests.wait = 3
    /\ ppc = "idle"
    /\ result = Throw(<<"Processing failed">>)

\* the failure uploadDocument is said to raise for the HTTP status s, for
\* the statuses that have a failure of their own
UploadFailureOf(s) ==
    CASE s = 401 -> <<"Invalid API key">>
      [] s = 403 -> <<"Insufficient credits">>
      [] s = 413 -> <<"File too large (max 20MB)">>
      [] s = 415 -> <<"Unsupported file type">>
      [] OTHER -> <<"Upload failed: ", s>>

\* the call ended at its upload, with the failure of the status s
UploadFailedWith(s) ==
    /\ ppc = "idle"
    /\ result.kind = "throw"
    /\ result.value = UploadFailureOf(s)
    /\ requests.check = 0
    /\ requests.job = 0

\* the upload gave the call the identifier the service made for it
UploadReturnedId == requests.job > 0 /\ documentId = requests.job

\* the statement of C22 as it stands: every 2xx status is a success
C22_Original ==
    requests.uploaded # 0 =>
        IF requests.uploaded >= 200 /\ requests.uploaded <= 299
        THEN UploadReturnedId
        ELSE UploadFailedWith(requests.uploaded)

\* C22 (amended): uploadDocument maps the HTTP status of the upload to its
\* outcome: 401, 403, 413 and 415 give their own failures, every other
\* status than 201 (other 2xx statuses included) gives the generic upload
\* failure carrying the status, and on 201 it returns the identifier of the
\* response.
C22_UploadStatusMapping ==
    requests.uploaded # 0 =>
        IF requests.uploaded = 201
        THEN UploadReturnedId
        ELSE UploadFailedWith(requests.uploaded)

C22_Witness ==
    /\ requests.uploaded = 200
    /\ UploadFailedWith(200)

\* C35: uploadDocument returns a job identifier if and only if the upload
\* was answered with status 201; with any other status, 200 and the other
\* 2xx statuses included, the call has ended with a failure at the upload
\* and holds no identifier.
C35_IdOnlyOn201 ==
    requests.uploaded # 0 =>
        /\ UploadReturnedId <=> requests.uploaded = 201
        /\ requests.uploaded # 201 =>
              /\ ppc = "idle"
              /\ result.kind = "throw"
              /\ documentId = Undefined
              /\ requests.wait = 0

C35_Witness ==
    /\ requests.uploaded = 204
    /\ ppc = "idle"
    /\ result = Throw(<<"Upload failed: ", 204>>)
    /\ documentId = Undefined

\* the last status check of the running call was answered, and not with 200
StatusCheckFailed == requests.last.http \notin {0, 200}

\* C23: a status check answered 401 raises the invalid-key failure and one
\* answered with any other status than 200 the generic status-check failure
\* carrying the status; processDocument then has ended with that failure,
\* having made no status check after it and fetched no result.
C23_StatusCheckFailureEndsCall ==
    /\ StatusCheckFailed =>
          /\ ppc = "idle"
          /\ result.kind = "throw"
          /\ result.value = IF requests.last.http = 401
                            THEN <<"Invalid API key">>
                            ELSE <<"Status check failed: ", requests.last.http>>
          /\ requests.fetch = 0
          /\ requests.wait = requests.check
    /\ requests.last.http = 200 => requests.last.job \in JobStatuses

C23_Witness ==
    /\ requests.last.http = 201
    /\ requests.check = 2
    /\ requests.fetch = 0
    /\ ppc = "idle"
    /\ result = Throw(<<"Status check failed: ", 201>>)

\* the payload of the answered result request carries an error text
PayloadHasError ==
    requests.fetched.error # Undefined /\ requests.fetched.error # ""

C25_FreshJobPerCall ==
    /\ requests.upload <= 1
    /\ ppc # "idle" => requests.upload = 1
    /\ ppc = "upload" =>
          /\ attempts = 0
          /\ documentId = Undefined
          /\ requests.wait = 0
          /\ result = NoResult
    /\ (requests.wait > 0 \/ requests.check > 0 \/ requests.fetch > 0) =>
          /\ requests.upload = 1
          /\ requests.uploaded = 201
          /\ requests.job = nextId
    /\ requests.wait = requests.check + (IF ppc = "wait" THEN 1 ELSE 0)
    /\ attempts <= requests.check
    /\ requests.fetch <= 1
    /\ requests.fetch = 1 => LastJob = "processed"
    /\ requests.ids \subseteq {requests.job}
    /\ requests.check > 0 => requests.ids = {requests.job}

C25_Witness ==
    /\ nextId = 2
    /\ requests.job = 2
    /\ requests.ids = {2}
    /\ requests.upload = 1
    /\ requests.check = 2
    /\ requests.fetch = 1
    /\ result.kind = "return"

(***************************************************************************)
(* Properties of the notifications and the attempts they start (checked    *)
(* under Spec).                                                            *)
(***************************************************************************)
\* the grace period of the AutoProcessor in place has not elapsed: timers
\* fire in the order they were set, so its timer is pending while any is
InGracePeriod == autoProcessor /\ timers > 0

\* the files the queue holds or has handed to its callback
Accepted == Len(queue) + Len(inflight)

\* C26: from the initialization of the AutoProcessor until its grace period
\* of 1000 ms has elapsed, no step calls shouldProcess and no step adds a
\* file to the queue: a notification fired in that time is dropped.
C26_GracePeriodDropsNotifications ==
    [][InGracePeriod => (answer' = answer /\ Accepted' <= Accepted)]_vars

\* the i-th attempt has called processDocument: its upload request is out
Uploading(i) == attempt[i].pc = "remote"

\* C27 (checked under SpecGate): a file that is larger than 20 MB when its
\* output action starts, or whose type is not supported, never has an
\* upload request made for it by the pipeline: shouldProcess keeps it out
\* of the queue and the output action returns before any network call.
C27_NoUploadOfInvalidFile ==
    \A i \in DOMAIN attempt :
        Uploading(i) =>
            /\ HasSupportedType(inflight[i])
            /\ attempt[i].at.size <= 20971520

C27_Witness ==
    /\ \E i \in DOMAIN attempt :
          /\ attempt[i].pc = "persist"
          /\ attempt[i].remote = NoResult
          /\ attempt[i].at.size > 20971520
    /\ "f4" \in DOMAIN stat
    /\ ~HasSupportedType("f4")
    /\ answer = [file |-> "f4", value |-> FALSE, called |-> TRUE]

\* an output artifact of the file f exists: an attempt on f has uploaded it
\* and got its result
HasOutput(f) ==
    \E kind \in {"note", "companion"} : [kind |-> kind, file |-> f] \in notes

\* C30 (checked under SpecSame, where the fingerprint of the file never
\* changes): whatever create and modify notifications the file gets, the
\* pipeline uploads it at most once: no attempt on the file is uploading
\* when an earlier attempt on it has been uploaded and has written its
\* output.
C30_OneAttemptPerFingerprint ==
    \A i \in DOMAIN attempt : Uploading(i) => ~HasOutput(inflight[i])

\* C31 (checked under Spec): the record an attempt writes has status=success
\* only if in that attempt the remote processing returned a result and the
\* output artifact was written; without an api client, after a rejected
\* upload, a failed job or a timeout, the record is not a success record.
C31_SuccessRecordOnlyAfterOutput ==
    \A i \in DOMAIN attempt :
        (attempt[i].pc = "persist" /\ attempt[i].metadata.status = "success") =>
            /\ attempt[i].remote.kind = "return"
            /\ attempt[i].created = 1

\* the step ends the output action of the i-th attempt, which was started
\* (and the file read for the upload) when the file's stat was attempt[i].at
\* and has uploaded the file: markAsProcessed builds the record
RecordsUploaded(i) ==
    /\ inflight' = inflight
    /\ queue' = queue
    /\ attempt[i].pc = "write"
    /\ attempt'[i].pc = "persist"
    /\ attempt'[i].metadata.status = "success"

\* C32 (checked under Spec): the fileHash of the success record an attempt
\* builds is the fingerprint the file had when the attempt read and
\* uploaded it; an mtime or size the file gets while the attempt is in
\* flight is not recorded as processed.
C32_RecordHasUploadedFingerprint ==
    [][\A i \in DOMAIN attempt :
          RecordsUploaded(i) =>
              attempt'[i].metadata.fileHash = getFileHash(attempt[i].at)]_vars

\* C33 (checked under Spec): at any time at most one create handler and at
\* most one modify handler of the plugin are registered with the vault,
\* whatever settings saves, timers and unload came before, so a
\* notification is handled, checked and enqueued at most once.
C33_AtMostOneSubscription ==
    /\ handlers.create <= 1
    /\ handlers.modify <= 1
    /\ ~loaded => (handlers.create = 0 /\ handlers.modify = 0)

(***************************************************************************)
(* The files the pipeline writes (checked under SpecFeedback).             *)
(***************************************************************************)
\* C34: no file the pipeline writes for a source file (its sidecar record,
\* the new note, the companion note, a saved thumbnail) satisfies
\* shouldProcess, whatever the watch folder, the note folder and the image
\* folder are.
C34_NoFeedbackLoop ==
    answer.file \in DOMAIN artifacts => ~answer.value


(***************************************************************************)
(* Properties of the failure notices (SpecNotice)                          *)
(***************************************************************************)
\* the keywords of the rules, in the order of the claim
NoticeRules ==
    << { <<"i","n","v","a","l","i","d"," ","a","p","i"," ","k","e","y">>, <<"4","0","1">>, <<"u","n","a","u","t","h","o","r","i","z","e","d">> },
       { <<"i","n","s","u","f","f","i","c","i","e","n","t"," ","c","r","e","d","i","t","s">>, <<"4","0","3">> },
       { <<"u","n","s","u","p","p","o","r","t","e","d"," ","f","i","l","e"," ","t","y","p","e">>, <<"4","1","5">> },
       { <<"f","i","l","e"," ","t","o","o"," ","l","a","r","g","e">>, <<"4","1","3">> },
       { <<"t","i","m","e","o","u","t">> },
       { <<"n","e","t","w","o","r","k">>, <<"f","e","t","c","h">> } >>

NoticeTexts ==
    << "API key invalid. Please update your API key in plugin settings.",
       "Insufficient credits. Please check your account balance or upgrade your plan.",
       "Unsupported file format. Please use JPG, PNG, PDF, or other supported image formats.",
       "File too large. Maximum file size is 20MB.",
       "Processing timeout. The document may be too complex or the service is busy. Please try again.",
       "Network error. Please check your internet connection and try again." >>

\* the rules the failure text matches, letter case set aside
MatchingRules(error) ==
    { r \in DOMAIN NoticeRules :
        \E k \in NoticeRules[r] : includes(toLowerCase(error), k) }

NamedFailures ==
    << <<"I","n","v","a","l","i","d"," ","A","P","I"," ","k","e","y">>, <<"I","n","s","u","f","f","i","c","i","e","n","t"," ","c","r","e","d","i","t","s">>, <<"U","n","s","u","p","p","o","r","t","e","d"," ","f","i","l","e"," ","t","y","p","e">>,
       <<"F","i","l","e"," ","t","o","o"," ","l","a","r","g","e"," ","(","m","a","x"," ","2","0","M","B",")">>, <<"P","r","o","c","e","s","s","i","n","g"," ","t","i","m","e","o","u","t">> >>

\* C37: every failure of the remote client is shown as the message of the
\* first rule it matches, in the order invalid key/401, credits/403,
\* unsupported type/415, too large/413, timeout, network; the five named
\* failures give the messages of rules one to five; and the raw text
\* prefixed with 'OCR failed: ' is shown exactly for a failure matching no
\* rule.
C37_FirstMatchingRule ==
    \A i \in DOMAIN notices :
        LET n == notices[i]
            m == MatchingRules(n.error)
        IN  /\ m # {} =>
                \E r \in m : /\ \A o \in m : r <= o
                             /\ n.message = <<NoticeTexts[r]>>
            /\ m = {} => n.message = <<"OCR failed: ">> \o n.error
            /\ n.message = <<"OCR failed: ">> \o n.error => m = {}
            /\ \A r \in DOMAIN NamedFailures :
                    n.error = NamedFailures[r] => n.message = <<NoticeTexts[r]>>

\* the timeout failure was shown as the timeout message, and a failure
\* matching no rule as its raw text
C37_Witness ==
    /\ Len(notices) = 2
    /\ notices[1].error = NamedFailures[5]
    /\ notices[1].message = <<NoticeTexts[5]>>
    /\ notices[2].error = <<"U","p","l","o","a","d"," ","f","a","i","l","e","d",":"," ">> \o toString(500)
    /\ notices[2].message = <<"OCR failed: ">> \o notices[2].error
====
